---- MODULE Spec2Model ----
(***************************************************************************)
(* roborev: the review job queue (internal/storage), the daemon start-up   *)
(* and the worker pool that drains the queue.                              *)
(*                                                                         *)
(* The store is an SQLite database opened in WAL mode.  A single SQL       *)
(* statement is atomic; statements inside a transaction become visible to  *)
(* other connections at COMMIT; a statement that writes waits while        *)
(* another connection holds the write lock.                                *)
(***************************************************************************)
EXTENDS Integers, Sequences, FiniteSets, TLC

\* ---------------------------------------------------------------- bounds
MaxJobs == 2
MaxTime == 2
MaxWorkers == 1                   \* the concurrency N of the pool of SpecPool
MaxPatterns == 2                  \* configured context_files patterns
MaxHops == 3                      \* symbolic links EvalSymlinks follows before it gives up
MaxContentLen == 11               \* characters of a content given to fenceForContent
MaxEntries == 2                   \* context entries given to writeContextFiles
MaxReviews == 2                   \* reviews in the store when a prompt is built

\* ------------------------------------------------------------- constants
Callers == {1, 2}                 \* a caller passes its own number as workerID
NoTime == 0                       \* SQL NULL in a TEXT time column
NoWorker == 0                     \* SQL NULL in worker_id
NoError == ""                     \* SQL NULL in error (read back as "")
NoJob == 0                        \* ClaimJob's (nil, nil)
NoCommit == 0                     \* SQL NULL in commit_id: a range job
Commits == {1}                    \* ids of rows of the table commits
ErrJob == -1                      \* ClaimJob's (nil, err)
Paths == {"/a", "/b"}             \* root paths of repositories
Shas == {"s1", "s2"}              \* commit SHAs
Agents == {"codex"}
Prompts == {"p"}
Outputs == {"o1", "o2"}           \* what a caller of the store may pass as output
AgentOutputs == {"o1"}            \* what the daemon's agent returns
ErrorMsgs == {"agent: exit status 1"}

VARIABLES
    jobs,       \* table review_jobs: a sequence of rows, the index is the id
    reviews,    \* table reviews: the set of rows
    now,        \* the wall clock, in seconds
    tx,         \* the open CompleteJob transaction, or NoTx
    pc,         \* where each caller is inside a multi-statement operation
    claimed,    \* the row the caller's UPDATE of ClaimJob changed (0: none)
    ret,        \* the result of the caller's ClaimJob: a job id, NoJob, ErrJob
    resets,     \* history: ResetStaleJobs calls in a row since the last write (0..2)
    daemon,     \* the daemon process and its worker pool: down, up, stopping
    stale,      \* history: the jobs the last crash or stop left running, and why
    repos,      \* table repos: a sequence of root paths, the index is the id
    commits,    \* table commits: a sequence of rows, the index is the id
    upsert,     \* the GetOrCreate calls: each caller's argument, and history
    ctx         \* the prompt builder's context files: file system, patterns, result

vars == <<jobs, reviews, now, tx, pc, claimed, ret, resets, daemon, stale,
          repos, commits, upsert, ctx>>

cvars == <<repos, commits, upsert, ctx>>

dvars == <<daemon, stale>>

NoStale == [ids |-> {}, cause |-> "none"]

NoUpserts == [calls |-> {}, returned |-> {}]

NoContext == [phase |-> "none"]

NoTx == [owner |-> 0, job |-> 0, agent |-> "", prompt |-> "", output |-> "",
         inserted |-> FALSE]

\* --------------------------------------------------------------- schema
JobStatus == {"queued", "running", "done", "failed"}

\* INSERT INTO review_jobs (..., status) VALUES (..., 'queued'): every other
\* column takes its default.
NewJob(commitID, t) ==
    [commit_id |-> commitID, status |-> "queued", enqueued_at |-> t,
     started_at |-> NoTime, finished_at |-> NoTime, worker_id |-> NoWorker,
     error |-> NoError]

Ids(js) == 1..Len(js)

ReviewsOf(rs, id) == {r \in rs : r.job_id = id}

Queued(js) == {i \in Ids(js) : js[i].status = "queued"}

Running(js) == {i \in Ids(js) : js[i].status = "running"}

\* ------------------------------------------------------------- ClaimJob
\* SELECT id FROM review_jobs WHERE status = 'queued' ORDER BY enqueued_at
\* LIMIT 1: a queued row with the least enqueued_at; SQL leaves the choice
\* among equal keys open.
ClaimCandidatesQueuedOrRunning(js) ==
    LET open == Queued(js) \cup Running(js)
    IN  {i \in open : \A k \in open : js[i].enqueued_at <= js[k].enqueued_at}

ClaimCandidatesQueuedOrFailed(js) ==
    LET open == {i \in Ids(js) : js[i].status \in {"queued", "failed"}}
    IN  {i \in open : \A k \in open : js[i].enqueued_at <= js[k].enqueued_at}

\* (a claim that takes any queued job, whatever its enqueue time)
ClaimCandidatesAnyQueued(js) == Queued(js)

ClaimCandidates(js) ==
    {i \in Queued(js) : \A k \in Queued(js) : js[i].enqueued_at <= js[k].enqueued_at}

\* UPDATE review_jobs SET status = 'running', worker_id = ?, started_at = ?
ClaimRow(js, id, w, t) ==
    [js EXCEPT ![id] = [@ EXCEPT !.status = "running", !.worker_id = w,
                                 !.started_at = t]]

FetchCandidatesAnyWorker(js, w) ==
    {i \in Running(js) : \A k \in Running(js) : js[i].started_at >= js[k].started_at}

\* SELECT ... WHERE j.worker_id = ? AND j.status = 'running'
\* ORDER BY j.started_at DESC LIMIT 1
FetchCandidates(js, w) ==
    LET mine == {i \in Running(js) : js[i].worker_id = w}
    IN  {i \in mine : \A k \in mine : js[i].started_at >= js[k].started_at}

\* ---------------------------------------------------- CompleteJob, FailJob
CompleteRowKeepsRunning(js, id, t) ==
    IF id \in Ids(js)
    THEN [js EXCEPT ![id] = [@ EXCEPT !.finished_at = t]]
    ELSE js

\* UPDATE review_jobs SET status = 'done', finished_at = ? WHERE id = ?
CompleteRow(js, id, t) ==
    IF id \in Ids(js)
    THEN [js EXCEPT ![id] = [@ EXCEPT !.status = "done", !.finished_at = t]]
    ELSE js

InsertReviewNeverFails(rs, id) == FALSE

\* reviews.job_id is UNIQUE: the INSERT fails when the job has a review.
InsertReviewFails(rs, id) == ReviewsOf(rs, id) # {}

NewReview(id, a, p, o) == [job_id |-> id, agent |-> a, prompt |-> p, output |-> o]

FailRowNoErrorText(js, id, msg, t) ==
    IF id \in Ids(js)
    THEN [js EXCEPT ![id] = [@ EXCEPT !.status = "failed", !.finished_at = t]]
    ELSE js

\* UPDATE review_jobs SET status = 'failed', finished_at = ?, error = ?
\* WHERE id = ?
FailRow(js, id, msg, t) ==
    IF id \in Ids(js)
    THEN [js EXCEPT ![id] = [@ EXCEPT !.status = "failed", !.finished_at = t,
                                     !.error = msg]]
    ELSE js

\* ------------------------------------------------------- ResetStaleJobs
ResetStaleRowsKeepWorker(js) ==
    [i \in Ids(js) |->
        IF js[i].status = "running"
        THEN [js[i] EXCEPT !.status = "queued", !.started_at = NoTime]
        ELSE js[i]]

ResetStaleRowsNone(js) == js

ResetStaleRowsAndFailed(js) ==
    [i \in Ids(js) |->
        IF js[i].status \in {"running", "failed"}
        THEN [js[i] EXCEPT !.status = "queued", !.worker_id = NoWorker,
                           !.started_at = NoTime]
        ELSE js[i]]

\* UPDATE review_jobs SET status = 'queued', worker_id = NULL,
\* started_at = NULL WHERE status = 'running'
ResetStaleRows(js) ==
    [i \in Ids(js) |->
        IF js[i].status = "running"
        THEN [js[i] EXCEPT !.status = "queued", !.worker_id = NoWorker,
                           !.started_at = NoTime]
        ELSE js[i]]

\* ============================================================ the store
InitStore ==
    /\ jobs = <<>>
    /\ reviews = {}
    /\ now = 1
    /\ tx = NoTx
    /\ resets = 0
    /\ repos = <<>>
    /\ commits = <<>>
    /\ upsert = NoUpserts
    /\ ctx = NoContext

\* No other connection holds the write lock.
CanWrite == tx = NoTx

\* The statements of the store's operations.  A statement says what it does
\* to the tables and where its caller goes next; `to` is where the caller of
\* ClaimJob continues with the result.

\* The clock advances between any two statements.
TickStmt ==
    /\ now < MaxTime
    /\ now' = now + 1
    /\ UNCHANGED <<jobs, reviews, tx, pc, claimed, ret, resets>>
    /\ UNCHANGED cvars

EnqueueJobStmt ==
    /\ CanWrite
    /\ Len(jobs) < MaxJobs
    /\ \E commitID \in Commits : jobs' = Append(jobs, NewJob(commitID, now))
    /\ resets' = 0
    /\ UNCHANGED <<reviews, now, tx, pc, claimed, ret>>
    /\ UNCHANGED cvars

\* (an EnqueueRangeJob that keeps a commit reference)
EnqueueRangeJobWithCommit ==
    /\ CanWrite
    /\ Len(jobs) < MaxJobs
    /\ \E commitID \in Commits : jobs' = Append(jobs, NewJob(commitID, now))
    /\ resets' = 0
    /\ UNCHANGED <<reviews, now, tx, pc, claimed, ret>>
    /\ UNCHANGED cvars

\* INSERT INTO review_jobs (..., commit_id, ...) VALUES (?, NULL, ...)
EnqueueRangeJobStmt ==
    /\ CanWrite
    /\ Len(jobs) < MaxJobs
    /\ jobs' = Append(jobs, NewJob(NoCommit, now))
    /\ resets' = 0
    /\ UNCHANGED <<reviews, now, tx, pc, claimed, ret>>
    /\ UNCHANGED cvars

\* ClaimJob, first statement: the UPDATE.  With no row changed the call
\* returns (nil, nil).
ClaimJobUpdateStmt(c, to) ==
    /\ CanWrite
    /\ IF ClaimCandidates(jobs) = {}
       THEN /\ ret' = [ret EXCEPT ![c] = NoJob]
            /\ claimed' = [claimed EXCEPT ![c] = NoJob]
            /\ pc' = [pc EXCEPT ![c] = to]
            /\ UNCHANGED <<jobs, resets>>
       ELSE \E id \in ClaimCandidates(jobs) :
            /\ jobs' = ClaimRow(jobs, id, c, now)
            /\ claimed' = [claimed EXCEPT ![c] = id]
            /\ pc' = [pc EXCEPT ![c] = "claim_fetch"]
            /\ resets' = 0
            /\ UNCHANGED ret
    /\ UNCHANGED <<reviews, now, tx>>
    /\ UNCHANGED cvars

\* ClaimJob, second statement: the SELECT that fetches "the job we just
\* claimed"; sql.ErrNoRows when no row matches.
ClaimJobFetchStmt(c, to) ==
    /\ pc[c] = "claim_fetch"
    /\ IF FetchCandidates(jobs, c) = {}
       THEN ret' = [ret EXCEPT ![c] = ErrJob]
       ELSE \E id \in FetchCandidates(jobs, c) : ret' = [ret EXCEPT ![c] = id]
    /\ pc' = [pc EXCEPT ![c] = to]
    /\ UNCHANGED <<jobs, reviews, now, tx, claimed, resets>>
    /\ UNCHANGED cvars

\* (the UPDATE run on the connection pool instead of the transaction)
CompleteJobBeginOutsideTx(c, id, a, p, o) ==
    /\ CanWrite
    /\ jobs' = CompleteRow(jobs, id, now)
    /\ tx' = [owner |-> c, job |-> id, agent |-> a, prompt |-> p, output |-> o,
              inserted |-> FALSE]
    /\ pc' = [pc EXCEPT ![c] = "complete_insert"]
    /\ UNCHANGED <<reviews, now, claimed, ret, resets>>
    /\ UNCHANGED cvars

\* CompleteJob: db.Begin and the UPDATE inside the transaction.  The
\* transaction's writes stay in tx until the COMMIT.
CompleteJobBeginStmt(c, id, a, p, o) ==
    /\ CanWrite
    /\ tx' = [owner |-> c, job |-> id, agent |-> a, prompt |-> p, output |-> o,
              inserted |-> FALSE]
    /\ pc' = [pc EXCEPT ![c] = "complete_insert"]
    /\ UNCHANGED <<jobs, reviews, now, claimed, ret, resets>>
    /\ UNCHANGED cvars

\* CompleteJob: the INSERT of the review; a UNIQUE violation returns the
\* error and the deferred tx.Rollback discards the UPDATE.
CompleteJobInsertStmt(c) ==
    /\ pc[c] = "complete_insert"
    /\ tx.owner = c
    /\ IF InsertReviewFails(reviews, tx.job)
       THEN /\ tx' = NoTx
            /\ pc' = [pc EXCEPT ![c] = "idle"]
       ELSE /\ tx' = [tx EXCEPT !.inserted = TRUE]
            /\ pc' = [pc EXCEPT ![c] = "complete_commit"]
    /\ UNCHANGED <<jobs, reviews, now, claimed, ret, resets>>
    /\ UNCHANGED cvars

\* CompleteJob: tx.Commit publishes the UPDATE and the INSERT together.
CompleteJobCommitStmt(c) ==
    /\ pc[c] = "complete_commit"
    /\ tx.owner = c
    /\ jobs' = CompleteRow(jobs, tx.job, now)
    /\ reviews' = reviews \cup {NewReview(tx.job, tx.agent, tx.prompt, tx.output)}
    /\ tx' = NoTx
    /\ pc' = [pc EXCEPT ![c] = "idle"]
    /\ resets' = 0
    /\ UNCHANGED <<now, claimed, ret>>
    /\ UNCHANGED cvars

\* CompleteJob interrupted: a statement or the COMMIT returns an I/O error,
\* or the process dies; the transaction is rolled back.
CompleteJobAbortStmt(c) ==
    /\ pc[c] \in {"complete_insert", "complete_commit"}
    /\ tx.owner = c
    /\ tx' = NoTx
    /\ pc' = [pc EXCEPT ![c] = "idle"]
    /\ UNCHANGED <<jobs, reviews, now, claimed, ret, resets>>
    /\ UNCHANGED cvars

FailJobStmt(id, msg) ==
    /\ CanWrite
    /\ jobs' = FailRow(jobs, id, msg, now)
    /\ resets' = 0
    /\ UNCHANGED <<reviews, now, tx, claimed, ret>>
    /\ UNCHANGED cvars

ResetStaleJobsStmt ==
    /\ CanWrite
    /\ jobs' = ResetStaleRows(jobs)
    /\ resets' = IF resets < 2 THEN resets + 1 ELSE 2
    /\ UNCHANGED <<reviews, now, tx, pc, claimed, ret>>
    /\ UNCHANGED cvars

\* ================================================= Spec: the store's API
\* Any caller may call any operation of the store, with any argument, at any
\* time; ClaimJob and CompleteJob take several statements, between which the
\* other callers' statements interleave.  CompleteJob and FailJob are called
\* for the jobs the table holds.  A caller that has the result of ClaimJob
\* ("claim_ret") drops it before the next statement of the store.
Init ==
    /\ InitStore
    /\ pc = [c \in Callers |-> "idle"]
    /\ claimed = [c \in Callers |-> NoJob]
    /\ ret = [c \in Callers |-> NoJob]
    /\ daemon = "down"
    /\ stale = NoStale

Delivered == \A c \in Callers : pc[c] # "claim_ret"

Tick == Delivered /\ TickStmt /\ UNCHANGED dvars

EnqueueJob(c) == Delivered /\ pc[c] = "idle" /\ EnqueueJobStmt /\ UNCHANGED dvars

ClaimJobUpdate(c) ==
    Delivered /\ pc[c] = "idle" /\ ClaimJobUpdateStmt(c, "claim_ret") /\ UNCHANGED dvars

ClaimJobFetch(c) == Delivered /\ ClaimJobFetchStmt(c, "claim_ret") /\ UNCHANGED dvars

ClaimJobReturn(c) ==
    /\ pc[c] = "claim_ret"
    /\ pc' = [pc EXCEPT ![c] = "idle"]
    /\ ret' = [ret EXCEPT ![c] = NoJob]
    /\ claimed' = [claimed EXCEPT ![c] = NoJob]
    /\ UNCHANGED <<jobs, reviews, now, tx, resets, daemon, stale>>
    /\ UNCHANGED cvars

CompleteJobBegin(c, id, a, p, o) ==
    Delivered /\ pc[c] = "idle" /\ CompleteJobBeginStmt(c, id, a, p, o) /\ UNCHANGED dvars

CompleteJobInsert(c) == Delivered /\ CompleteJobInsertStmt(c) /\ UNCHANGED dvars

CompleteJobCommit(c) == Delivered /\ CompleteJobCommitStmt(c) /\ UNCHANGED dvars

CompleteJobAbort(c) == Delivered /\ CompleteJobAbortStmt(c) /\ UNCHANGED dvars

FailJob(c, id, msg) ==
    Delivered /\ pc[c] = "idle" /\ FailJobStmt(id, msg) /\ UNCHANGED <<pc, daemon, stale>>

ResetStaleJobs(c) == Delivered /\ pc[c] = "idle" /\ ResetStaleJobsStmt /\ UNCHANGED dvars

Next ==
    \/ Tick
    \/ \E c \in Callers : EnqueueJob(c)
    \/ \E c \in Callers : ClaimJobUpdate(c)
    \/ \E c \in Callers : ClaimJobFetch(c)
    \/ \E c \in Callers : ClaimJobReturn(c)
    \/ \E c \in Callers, id \in Ids(jobs), a \in Agents, p \in Prompts, o \in Outputs :
          CompleteJobBegin(c, id, a, p, o)
    \/ \E c \in Callers : CompleteJobInsert(c)
    \/ \E c \in Callers : CompleteJobCommit(c)
    \/ \E c \in Callers : CompleteJobAbort(c)
    \/ \E c \in Callers, id \in Ids(jobs), msg \in ErrorMsgs : FailJob(c, id, msg)
    \/ \E c \in Callers : ResetStaleJobs(c)

Spec == Init /\ [][Next]_vars

\* ------------------------------------------------ claims about the store
\* C2: in every reachable state, for every job, exactly one review exists
\* for the job iff its status is done, and its error text is non-empty iff
\* its status is failed.
C2_ReviewIffDoneErrorIffFailed ==
    \A id \in Ids(jobs) :
        /\ (Cardinality(ReviewsOf(reviews, id)) = 1) <=> (jobs[id].status = "done")
        /\ (jobs[id].error # NoError) <=> (jobs[id].status = "failed")

StatusRank(st) == CASE st = "queued" -> 0 [] st = "running" -> 1 [] OTHER -> 2

\* C3: a job's status only moves forward along queued -> running ->
\* done|failed; no step reverts or replaces a status, except that
\* ResetStaleJobs moves running back to queued.
C3_StatusOnlyMovesForward ==
    [][\A id \in Ids(jobs) :
          \/ jobs'[id].status = jobs[id].status
          \/ StatusRank(jobs'[id].status) > StatusRank(jobs[id].status)
          \/ /\ jobs[id].status = "running"
             /\ jobs'[id].status = "queued"
             /\ \E c \in Callers : ResetStaleJobs(c)]_vars

\* C4: CompleteJob either ends with the job done and exactly one review of
\* it, or, failing or interrupted at any point, leaves the job and the
\* reviews as they were when it began; a done job with no review is never
\* observable.
C4_CompletionAtomic ==
    /\ [](\A id \in Ids(jobs) :
             jobs[id].status = "done" => Cardinality(ReviewsOf(reviews, id)) = 1)
    /\ [][\A c \in Callers :
             /\ CompleteJobCommit(c) =>
                   /\ jobs'[tx.job].status = "done"
                   /\ Cardinality(ReviewsOf(reviews', tx.job)) = 1
                   /\ \A id \in Ids(jobs) \ {tx.job} : jobs'[id] = jobs[id]
             /\ (tx.owner = c /\ ~CompleteJobCommit(c)) =>
                   /\ jobs' = jobs
                   /\ reviews' = reviews
             /\ (\E id \in Ids(jobs), a \in Agents, p \in Prompts, o \in Outputs :
                    CompleteJobBegin(c, id, a, p, o)) =>
                   /\ jobs' = jobs
                   /\ reviews' = reviews]_vars

\* The UPDATE and the INSERT of a CompleteJob are done and not committed:
\* the job is still running and has no review.
C4_Witness ==
    /\ tx.inserted
    /\ jobs[tx.job].status = "running"
    /\ ReviewsOf(reviews, tx.job) = {}

\* C5: absent concurrent claimers, successive ClaimJob calls return the
\* queued jobs in ascending enqueue-time order: the UPDATE of each call
\* claims a queued job whose enqueue time is the least among the queued
\* jobs, and the call returns that job (as long as no other caller has
\* touched the job in between).
C5_ClaimsInEnqueueOrder ==
    [][\A c \in Callers :
          /\ (ClaimJobUpdate(c) /\ Queued(jobs) # {}) =>
                /\ claimed'[c] \in Queued(jobs)
                /\ \A k \in Queued(jobs) :
                      jobs[claimed'[c]].enqueued_at <= jobs[k].enqueued_at
                /\ jobs'[claimed'[c]].status = "running"
          /\ (/\ ClaimJobFetch(c)
              /\ jobs[claimed[c]].status = "running"
              /\ jobs[claimed[c]].worker_id = c) =>
                ret'[c] = claimed[c]]_vars

\* C6: when no job is queued, ClaimJob returns none (nil, nil) and changes
\* nothing in the store.
C6_ClaimNoneChangesNothing ==
    [][\A c \in Callers :
          (ClaimJobUpdate(c) /\ Queued(jobs) = {}) =>
              /\ ret'[c] = NoJob
              /\ pc'[c] = "claim_ret"
              /\ jobs' = jobs
              /\ reviews' = reviews]_vars

\* ClaimJob has returned none from a store that holds jobs, none queued.
C6_Witness ==
    \E c \in Callers :
        /\ pc[c] = "claim_ret"
        /\ ret[c] = NoJob
        /\ Len(jobs) = MaxJobs
        /\ Queued(jobs) = {}
        /\ Running(jobs) # {}

\* C7: ResetStaleJobs moves every running job to queued and clears its
\* worker id and start time; every other column of it, every queued, done
\* and failed job and every review stay as they are.
C7_ResetRequeuesRunningOnly ==
    [][\A c \in Callers :
          ResetStaleJobs(c) =>
              /\ Len(jobs') = Len(jobs)
              /\ reviews' = reviews
              /\ \A id \in Ids(jobs) :
                    IF jobs[id].status = "running"
                    THEN /\ jobs'[id].status = "queued"
                         /\ jobs'[id].worker_id = NoWorker
                         /\ jobs'[id].started_at = NoTime
                         /\ jobs'[id].enqueued_at = jobs[id].enqueued_at
                         /\ jobs'[id].finished_at = jobs[id].finished_at
                         /\ jobs'[id].error = jobs[id].error
                    ELSE jobs'[id] = jobs[id]]_vars

\* ResetStaleJobs has run between the UPDATE and the SELECT of a ClaimJob:
\* the job the caller claimed is queued again, next to a done job.
C7_Witness ==
    /\ resets = 1
    /\ \E c \in Callers :
          /\ pc[c] = "claim_fetch"
          /\ jobs[claimed[c]].status = "queued"
          /\ jobs[claimed[c]].worker_id = NoWorker
    /\ \E id \in Ids(jobs) : jobs[id].status = "done"

\* C8: ResetStaleJobs is idempotent: with no running job it changes
\* nothing, and a second call right after a first changes nothing.
C8_ResetIdempotent ==
    [][\A c \in Callers :
          ResetStaleJobs(c) =>
              /\ (Running(jobs) = {} => jobs' = jobs)
              /\ (resets >= 1 => jobs' = jobs)
              /\ reviews' = reviews]_vars

\* ResetStaleJobs has run twice in a row on a store whose first call
\* requeued a claimed job.
C8_Witness ==
    /\ resets = 2
    /\ \E c \in Callers :
          /\ pc[c] = "claim_fetch"
          /\ jobs[claimed[c]].status = "queued"

\* ============================== SpecClaim: K callers against M queued jobs
\* The store holds M queued jobs (0 <= M <= MaxJobs) and nothing else; each
\* of K = MaxJobs + 1 callers, with a worker id of its own, calls ClaimJob
\* once.  The statements of the calls interleave in any order.
ClaimCallers == 1..(MaxJobs + 1)

QueuedStores ==
    {js \in UNION {[1..m -> {NewJob(c, t) : c \in Commits, t \in 1..MaxTime}] :
                        m \in 0..MaxJobs} :
        \A i \in DOMAIN js, k \in DOMAIN js :
            i <= k => js[i].enqueued_at <= js[k].enqueued_at}

InitClaim ==
    /\ jobs \in QueuedStores
    /\ now \in 1..MaxTime
    /\ \A i \in Ids(jobs) : jobs[i].enqueued_at <= now
    /\ reviews = {}
    /\ tx = NoTx
    /\ resets = 0
    /\ repos = <<>>
    /\ commits = <<>>
    /\ upsert = NoUpserts
    /\ ctx = NoContext
    /\ pc = [c \in ClaimCallers |-> "idle"]
    /\ claimed = [c \in ClaimCallers |-> NoJob]
    /\ ret = [c \in ClaimCallers |-> NoJob]
    /\ daemon = "down"
    /\ stale = NoStale

ClaimTick == TickStmt /\ UNCHANGED dvars

CallerClaim(c) == pc[c] = "idle" /\ ClaimJobUpdateStmt(c, "done") /\ UNCHANGED dvars

CallerFetch(c) == ClaimJobFetchStmt(c, "done") /\ UNCHANGED dvars

NextClaim ==
    \/ ClaimTick
    \/ \E c \in ClaimCallers : CallerClaim(c)
    \/ \E c \in ClaimCallers : CallerFetch(c)

SpecClaim == InitClaim /\ [][NextClaim]_vars

AllReturned == \A c \in ClaimCallers : pc[c] = "done"

\* C1: for any interleaving of K concurrent ClaimJob callers against a store
\* holding M queued jobs (K > M): no call fails, a returned job is running
\* for the caller it was returned to, no two callers are returned the same
\* job, and once all have returned exactly M calls have returned a job, every
\* job has been returned to exactly one caller, and the other K - M calls
\* have returned none.
C1_ExclusiveClaim ==
    /\ \A c \in ClaimCallers :
          pc[c] = "done" =>
              /\ ret[c] \in Ids(jobs) \cup {NoJob}
              /\ ret[c] \in Ids(jobs) =>
                    /\ jobs[ret[c]].status = "running"
                    /\ jobs[ret[c]].worker_id = c
    /\ \A c \in ClaimCallers, d \in ClaimCallers :
          (c # d /\ pc[c] = "done" /\ pc[d] = "done" /\ ret[c] \in Ids(jobs))
              => ret[c] # ret[d]
    /\ AllReturned =>
          /\ Cardinality({c \in ClaimCallers : ret[c] \in Ids(jobs)}) = Len(jobs)
          /\ \A id \in Ids(jobs) :
                Cardinality({c \in ClaimCallers : ret[c] = id}) = 1
          /\ Cardinality({c \in ClaimCallers : ret[c] = NoJob})
                = Cardinality(ClaimCallers) - Len(jobs)

\* All K callers have returned from a store that held MaxJobs queued jobs.
C1_Witness ==
    /\ AllReturned
    /\ Len(jobs) = MaxJobs
    /\ \E c \in ClaimCallers : ret[c] = NoJob
    /\ \A id \in Ids(jobs) : jobs[id].status = "running"

\* ================================== SpecDaemon: the daemon and its pool
\* One daemon process owns the store.  Server.Start resets the stale jobs
\* and starts the worker pool; the pool's workers are the callers, each with
\* a worker id of its own, and each runs the loop
\*   idle -> claiming -> (no job: backoff -> idle)
\*                     | (job: processing -> recording -> idle).
\* A crash, or a stop whose timeout expires, ends every worker where it
\* stands: an open transaction is rolled back, and the jobs that were
\* running stay running in the store.
Workers == Callers

InFlight(w) == pc[w] \in {"claim_fetch", "processing", "complete_insert", "complete_commit"}

\* The job worker w is working on.
Holding(w, id) ==
    \/ pc[w] = "claim_fetch" /\ claimed[w] = id
    \/ pc[w] \in {"processing", "complete_insert", "complete_commit"} /\ ret[w] = id

InitDaemon ==
    /\ InitStore
    /\ pc = [w \in Workers |-> "idle"]
    /\ claimed = [w \in Workers |-> NoJob]
    /\ ret = [w \in Workers |-> NoJob]
    /\ daemon = "down"
    /\ stale = NoStale

DaemonTick == TickStmt /\ UNCHANGED dvars

\* Server.Start with the pool started without the reset of the stale jobs.
ServerStartNoReset(portFree) ==
    /\ daemon = "down"
    /\ daemon' = IF portFree THEN "up" ELSE "down"
    /\ UNCHANGED <<jobs, reviews, now, tx, pc, claimed, ret, resets, stale>>
    /\ UNCHANGED cvars

\* (a Server.Start that starts the pool first and resets the stale jobs
\* with the workers already claiming)
ServerStartPoolFirst(portFree) ==
    \/ /\ daemon = "down"
       /\ portFree
       /\ daemon' = "up"
       /\ UNCHANGED <<jobs, reviews, now, tx, pc, claimed, ret, resets, stale>>
       /\ UNCHANGED cvars
    \/ /\ daemon = "up"
       /\ ResetStaleJobsStmt
       /\ UNCHANGED dvars

\* Server.Start: ResetStaleJobs, then FindAvailablePort (on its error Start
\* returns with the pool not started), then workerPool.Start.
ServerStart(portFree) ==
    /\ daemon = "down"
    /\ ResetStaleJobsStmt
    /\ daemon' = IF portFree THEN "up" ELSE "down"
    /\ UNCHANGED stale

\* POST /api/enqueue, served while the HTTP server is up.
HandleEnqueue ==
    /\ daemon = "up"
    /\ EnqueueJobStmt
    /\ UNCHANGED dvars

\* A worker claims: ClaimJob's UPDATE; with no job it backs off.
WorkerClaim(w) ==
    /\ daemon = "up"
    /\ pc[w] = "idle"
    /\ ClaimJobUpdateStmt(w, "backoff")
    /\ UNCHANGED dvars

\* ClaimJob's SELECT; the worker goes on to process what ClaimJob returned.
WorkerFetch(w) ==
    /\ daemon # "down"
    /\ ClaimJobFetchStmt(w, "processing")
    /\ UNCHANGED dvars

\* The backoff interval elapses; a ClaimJob that returned an error is
\* retried the same way.
WorkerBackoff(w) ==
    /\ daemon # "down"
    /\ \/ pc[w] = "backoff"
       \/ pc[w] = "processing" /\ ret[w] \notin Ids(jobs)
    /\ pc' = [pc EXCEPT ![w] = "idle"]
    /\ UNCHANGED <<jobs, reviews, now, tx, claimed, ret, resets, daemon, stale>>
    /\ UNCHANGED cvars

\* The agent returned its output within the deadline: the worker records it,
\* CompleteJob's first statement.
WorkerComplete(w) ==
    /\ daemon # "down"
    /\ pc[w] = "processing"
    /\ ret[w] \in Ids(jobs)
    /\ \E a \in Agents, p \in Prompts, o \in AgentOutputs :
          CompleteJobBeginStmt(w, ret[w], a, p, o)
    /\ UNCHANGED dvars

WorkerCompleteInsert(w) ==
    /\ daemon # "down"
    /\ CompleteJobInsertStmt(w)
    /\ UNCHANGED dvars

WorkerCompleteCommit(w) ==
    /\ daemon # "down"
    /\ CompleteJobCommitStmt(w)
    /\ UNCHANGED dvars

\* The agent failed or ran into its deadline: the worker records the failure.
WorkerFail(w) ==
    /\ daemon # "down"
    /\ pc[w] = "processing"
    /\ ret[w] \in Ids(jobs)
    /\ \E msg \in ErrorMsgs : FailJobStmt(ret[w], msg)
    /\ pc' = [pc EXCEPT ![w] = "idle"]
    /\ UNCHANGED dvars

WorkerStep(w) ==
    \/ WorkerClaim(w)
    \/ WorkerFetch(w)
    \/ WorkerBackoff(w)
    \/ WorkerComplete(w)
    \/ WorkerCompleteInsert(w)
    \/ WorkerCompleteCommit(w)
    \/ WorkerFail(w)

\* The process is gone: nothing of its memory is left, its open transaction
\* is rolled back, the tables are as the last commit left them.
ProcessGone(cause) ==
    /\ daemon' = "down"
    /\ stale' = [ids |-> Running(jobs), cause |-> cause]
    /\ tx' = NoTx
    /\ pc' = [w \in Workers |-> "idle"]
    /\ claimed' = [w \in Workers |-> NoJob]
    /\ ret' = [w \in Workers |-> NoJob]
    /\ UNCHANGED <<jobs, reviews, now, resets>>
    /\ UNCHANGED cvars

Crash ==
    /\ daemon # "down"
    /\ ProcessGone("crash")

\* (a Server.Stop that returns without waiting for the workers)
ServerStopWithoutWaiting ==
    /\ daemon = "up"
    /\ ProcessGone("stop")

\* Server.Stop: the HTTP server shuts down, the pool stops claiming.
ServerStop ==
    /\ daemon = "up"
    /\ daemon' = "stopping"
    /\ UNCHANGED <<jobs, reviews, now, tx, pc, claimed, ret, resets, stale>>
    /\ UNCHANGED cvars

\* Every worker has finished its job: the pool has stopped.
StopDrained ==
    /\ daemon = "stopping"
    /\ \A w \in Workers : ~InFlight(w)
    /\ ProcessGone("stop")

\* The stop's timeout expires with jobs in flight: they are abandoned.
StopTimeout ==
    /\ daemon = "stopping"
    /\ \E w \in Workers : InFlight(w)
    /\ ProcessGone("timeout")

NextDaemon ==
    \/ DaemonTick
    \/ \E portFree \in BOOLEAN : ServerStart(portFree)
    \/ HandleEnqueue
    \/ \E w \in Workers : WorkerClaim(w)
    \/ \E w \in Workers : WorkerFetch(w)
    \/ \E w \in Workers : WorkerBackoff(w)
    \/ \E w \in Workers : WorkerComplete(w)
    \/ \E w \in Workers : WorkerCompleteInsert(w)
    \/ \E w \in Workers : WorkerCompleteCommit(w)
    \/ \E w \in Workers : WorkerFail(w)
    \/ Crash
    \/ ServerStop
    \/ StopDrained
    \/ StopTimeout

\* Workers are scheduled fairly and an agent invocation ends (its deadline).
SpecDaemon ==
    /\ InitDaemon
    /\ [][NextDaemon]_vars
    /\ \A w \in Workers : WF_vars(WorkerStep(w))

\* ------------------------------------------------ claims about the daemon
JobIds == 1..MaxJobs

Recorded(id) == id \in Ids(jobs) /\ jobs[id].status \in {"done", "failed"}

C10_ClaimedJobsRecordedQueuedJobsClaimed ==
    /\ \A w \in Workers, id \in JobIds :
          (daemon # "down" /\ Holding(w, id)) ~> (daemon = "down" \/ Recorded(id))
    /\ [][\A w \in Workers :
            WorkerClaim(w) =>
                \A id \in Ids(jobs) : jobs[id].worker_id = w => Recorded(id)]_vars
    /\ [](daemon # "down" =>
            \A w \in Workers :
                /\ Cardinality({id \in Running(jobs) : jobs[id].worker_id = w}) <= 1
                /\ pc[w] \in {"processing", "complete_insert", "complete_commit"}
                      => (ret[w] \in Running(jobs) /\ jobs[ret[w]].worker_id = w))
    /\ [](\A id \in Ids(jobs) :
            jobs[id].status = "done" => Cardinality(ReviewsOf(reviews, id)) = 1)
    /\ \A id \in JobIds :
          (daemon = "up" /\ id \in Queued(jobs))
              ~> (daemon # "up" \/ id \in Running(jobs))

\* A worker that recorded one job as done has claimed the next one, while the
\* other worker's job was recorded as failed.
C10_Witness ==
    /\ daemon = "up"
    /\ \E w \in Workers, id \in Ids(jobs) :
          /\ pc[w] = "claim_fetch"
          /\ claimed[w] # id
          /\ jobs[id].worker_id = w
          /\ jobs[id].status = "done"
          /\ Cardinality(ReviewsOf(reviews, id)) = 1

\* C11: a processing error of a claimed job (prompt build failure, agent
\* exit, deadline, launch failure, a panic in the worker) ends in FailJob
\* for that job: the job is failed, with a finish time and a non-empty error
\* text, and stays so; the step touches no other job, no other worker and
\* not the pool, and the failing worker is back at the head of its loop,
\* from where it goes on to claim again.
C11_ProcessingErrorFailsTheJob ==
    /\ [][\A w \in Workers :
            WorkerFail(w) =>
                /\ jobs[ret[w]].status = "running"
                /\ jobs'[ret[w]].status = "failed"
                /\ jobs'[ret[w]].error # NoError
                /\ jobs'[ret[w]].finished_at = now
                /\ \A id \in Ids(jobs) \ {ret[w]} : jobs'[id] = jobs[id]
                /\ reviews' = reviews
                /\ daemon' = daemon
                /\ pc'[w] = "idle"
                /\ \A v \in Workers \ {w} : pc'[v] = pc[v]]_vars
    /\ [][\A id \in Ids(jobs) :
            jobs[id].status = "failed" =>
                (jobs'[id].status = "failed" /\ jobs'[id].error = jobs[id].error)]_vars
    /\ \A w \in Workers :
          (daemon = "up" /\ pc[w] = "idle") ~> (daemon # "up" \/ pc[w] # "idle")

\* A worker whose job failed has gone round its loop again (it claimed and
\* found nothing), while the other worker is processing its own job.
C11_Witness ==
    /\ daemon = "up"
    /\ \E w \in Workers, v \in Workers, id \in Ids(jobs) :
          /\ v # w
          /\ jobs[id].status = "failed"
          /\ jobs[id].error # NoError
          /\ jobs[id].worker_id = w
          /\ pc[w] = "backoff"
          /\ pc[v] = "processing"
          /\ jobs[ret[v]].status = "running"

\* C12: FailJob sets the job's status to failed, its finish time and its
\* error text, and touches no other job and no review; no operation of the
\* store moves a failed job to queued or running; a retry is a new job:
\* EnqueueJob appends a queued job under a new id and leaves every job,
\* the failed ones included, as it was.
C12_FailedJobsAreNotRetried ==
    /\ [][\A c \in Callers, id \in Ids(jobs), msg \in ErrorMsgs :
            FailJob(c, id, msg) =>
                /\ jobs'[id].status = "failed"
                /\ jobs'[id].finished_at = now
                /\ jobs'[id].error = msg
                /\ jobs'[id].enqueued_at = jobs[id].enqueued_at
                /\ \A k \in Ids(jobs) \ {id} : jobs'[k] = jobs[k]
                /\ reviews' = reviews]_vars
    /\ [][\A id \in Ids(jobs) :
            jobs[id].status = "failed" => jobs'[id].status \notin {"queued", "running"}]_vars
    /\ [][\A c \in Callers :
            EnqueueJob(c) =>
                /\ Len(jobs') = Len(jobs) + 1
                /\ jobs'[Len(jobs')].status = "queued"
                /\ \A id \in Ids(jobs) : jobs'[id] = jobs[id]]_vars

\* A job has failed, a new job was enqueued after it and a ClaimJob has run
\* since: the failed job is still failed and the claim took the new job.
C12_Witness ==
    \E id \in Ids(jobs), k \in Ids(jobs), c \in Callers :
        /\ id < k
        /\ jobs[id].status = "failed"
        /\ jobs[id].error # NoError
        /\ jobs[id].finished_at # NoTime
        /\ jobs[k].enqueued_at >= jobs[id].finished_at
        /\ jobs[k].status = "running"
        /\ pc[c] = "claim_fetch"
        /\ claimed[c] = k

\* C13: every call of EnqueueJob, ClaimJob, CompleteJob and FailJob either
\* returns success with its full effect applied or returns an error with
\* the store unchanged.  EnqueueJob returns with the job inserted; FailJob
\* with the job failed; CompleteJob commits the job done with its review, or
\* fails with jobs and reviews untouched; ClaimJob returns none with nothing
\* changed, or, once its UPDATE has changed a row (the caller is at
\* "claim_fetch"), returns a job and not an error.
C13_NoSilentDrop ==
    [][\A c \in Callers :
          /\ EnqueueJob(c) =>
                (Len(jobs') = Len(jobs) + 1 /\ jobs'[Len(jobs')].status = "queued")
          /\ (\E id \in Ids(jobs), msg \in ErrorMsgs : FailJob(c, id, msg)) =>
                (\E id \in Ids(jobs) : jobs'[id] # jobs[id] /\ jobs'[id].status = "failed")
          /\ CompleteJobCommit(c) =>
                (jobs'[tx.job].status = "done" /\ ReviewsOf(reviews', tx.job) # {})
          /\ (CompleteJobInsert(c) \/ CompleteJobAbort(c)) =>
                (jobs' = jobs /\ reviews' = reviews)
          /\ (ClaimJobUpdate(c) /\ ret'[c] = NoJob /\ pc'[c] = "claim_ret") =>
                (jobs' = jobs /\ reviews' = reviews)
          /\ (ClaimJobUpdate(c) /\ pc'[c] = "claim_fetch") => jobs' # jobs
          /\ ClaimJobFetch(c) => ret'[c] \in Ids(jobs)]_vars

\* C14: a review is 1:1 with its job and immutable.  In every state a job
\* has at most one review; no step removes or changes a review; a
\* CompleteJob for a job that has a review fails at its INSERT and leaves
\* the jobs and the reviews as they were.
C14_ReviewOnePerJobImmutable ==
    /\ [](\A id \in Ids(jobs) : Cardinality(ReviewsOf(reviews, id)) <= 1)
    /\ [][reviews \subseteq reviews']_vars
    /\ [][\A c \in Callers :
            (CompleteJobInsert(c) /\ ReviewsOf(reviews, tx.job) # {}) =>
                /\ pc'[c] = "idle"
                /\ tx' = NoTx
                /\ reviews' = reviews
                /\ jobs' = jobs]_vars

\* A second CompleteJob for a job, with another output than the review the
\* job has, stands at its INSERT.
C14_Witness ==
    \E c \in Callers, r \in reviews :
        /\ pc[c] = "complete_insert"
        /\ tx.owner = c
        /\ r.job_id = tx.job
        /\ r.output # tx.output
        /\ jobs[tx.job].status = "done"

\* ============================ SpecEnqueue: jobs for commits and for ranges
\* The store's API as in Spec, with EnqueueRangeJob beside EnqueueJob; no
\* other operation of the store reads or writes a job's commit reference.
EnqueueRangeJob(c) ==
    Delivered /\ pc[c] = "idle" /\ EnqueueRangeJobStmt /\ UNCHANGED dvars

NextEnqueue ==
    \/ Tick
    \/ \E c \in Callers : EnqueueJob(c)
    \/ \E c \in Callers : EnqueueRangeJob(c)
    \/ \E c \in Callers : ClaimJobUpdate(c)
    \/ \E c \in Callers : ClaimJobFetch(c)
    \/ \E c \in Callers : ClaimJobReturn(c)
    \/ \E c \in Callers, id \in Ids(jobs), a \in Agents, p \in Prompts, o \in AgentOutputs :
          CompleteJobBegin(c, id, a, p, o)
    \/ \E c \in Callers : CompleteJobInsert(c)
    \/ \E c \in Callers : CompleteJobCommit(c)
    \/ \E c \in Callers, id \in Ids(jobs), msg \in ErrorMsgs : FailJob(c, id, msg)

SpecEnqueue == Init /\ [][NextEnqueue]_vars

\* The row an enqueue at time t inserts: queued, with no worker, no start
\* time, no finish time and no error.
FreshJob(j, t) ==
    /\ j.status = "queued"
    /\ j.enqueued_at = t
    /\ j.worker_id = NoWorker
    /\ j.started_at = NoTime
    /\ j.finished_at = NoTime
    /\ j.error = NoError

\* C15: EnqueueJob and EnqueueRangeJob each insert exactly one new job, under
\* an id no job had, queued, with no worker id, no start or finish time and
\* no error; the commit reference is the given commit for EnqueueJob and
\* null for EnqueueRangeJob; no existing job and no review is modified.
C15_EnqueueInsertsOneQueuedJob ==
    [][\A c \in Callers :
          /\ EnqueueJob(c) =>
                /\ Len(jobs') = Len(jobs) + 1
                /\ FreshJob(jobs'[Len(jobs) + 1], now)
                /\ jobs'[Len(jobs) + 1].commit_id \in Commits
                /\ \A id \in Ids(jobs) : jobs'[id] = jobs[id]
                /\ reviews' = reviews
          /\ EnqueueRangeJob(c) =>
                /\ Len(jobs') = Len(jobs) + 1
                /\ FreshJob(jobs'[Len(jobs) + 1], now)
                /\ jobs'[Len(jobs) + 1].commit_id = NoCommit
                /\ \A id \in Ids(jobs) : jobs'[id] = jobs[id]
                /\ reviews' = reviews]_vars

\* A range job was enqueued after a commit's job was done: the done job and
\* its review are as they were, the range job is queued with no commit.
C15_Witness ==
    /\ Len(jobs) = 2
    /\ jobs[1].commit_id \in Commits
    /\ jobs[1].status = "done"
    /\ ReviewsOf(reviews, 1) # {}
    /\ jobs[1].finished_at <= jobs[2].enqueued_at
    /\ jobs[2].commit_id = NoCommit
    /\ FreshJob(jobs[2], now)

\* ====================================== SpecCounts: the store's counters
\* SELECT status, COUNT(*) FROM review_jobs GROUP BY status: one row for
\* every status that some job has.
StatusGroups(js) ==
    {[status |-> st, count |-> Cardinality({i \in Ids(js) : js[i].status = st})] :
        st \in {js[i].status : i \in Ids(js)}}

\* (the switch with the cases of done and failed exchanged)
CountRowsDoneFailedSwapped(rows) ==
    LET Count(st) == IF \E r \in rows : r.status = st
                     THEN (CHOOSE r \in rows : r.status = st).count
                     ELSE 0
    IN  [queued |-> Count("queued"), running |-> Count("running"),
         done |-> Count("failed"), failed |-> Count("done")]

\* GetJobCounts' loop over the rows: each result starts at 0 and takes the
\* count of the row whose status the switch matches.
CountRows(rows) ==
    LET Count(st) == IF \E r \in rows : r.status = st
                     THEN (CHOOSE r \in rows : r.status = st).count
                     ELSE 0
    IN  [queued |-> Count("queued"), running |-> Count("running"),
         done |-> Count("done"), failed |-> Count("failed")]

\* GetJobCounts: one SELECT, which reads the committed rows.
GetJobCounts(c) ==
    /\ pc[c] = "idle"
    /\ pc' = [pc EXCEPT ![c] = "counts_ret"]
    /\ ret' = [ret EXCEPT ![c] = CountRows(StatusGroups(jobs))]
    /\ UNCHANGED <<jobs, reviews, now, tx, claimed, resets, daemon, stale>>
    /\ UNCHANGED cvars

GetJobCountsReturn(c) ==
    /\ pc[c] = "counts_ret"
    /\ pc' = [pc EXCEPT ![c] = "idle"]
    /\ ret' = [ret EXCEPT ![c] = NoJob]
    /\ UNCHANGED <<jobs, reviews, now, tx, claimed, resets, daemon, stale>>
    /\ UNCHANGED cvars

\* The caller of GetJobCounts has its result before the next statement of
\* the store.
CountsDelivered == \A c \in Callers : pc[c] # "counts_ret"

NextCounts ==
    \/ CountsDelivered /\ Tick
    \/ CountsDelivered /\ \E c \in Callers : EnqueueJob(c)
    \/ CountsDelivered /\ \E c \in Callers : ClaimJobUpdate(c)
    \/ CountsDelivered /\ \E c \in Callers : ClaimJobFetch(c)
    \/ \E c \in Callers : ClaimJobReturn(c)
    \/ CountsDelivered /\
          \E c \in Callers, id \in Ids(jobs), a \in Agents, p \in Prompts, o \in AgentOutputs :
              CompleteJobBegin(c, id, a, p, o)
    \/ CountsDelivered /\ \E c \in Callers : CompleteJobInsert(c)
    \/ CountsDelivered /\ \E c \in Callers : CompleteJobCommit(c)
    \/ CountsDelivered /\ \E c \in Callers, id \in Ids(jobs), msg \in ErrorMsgs : FailJob(c, id, msg)
    \/ CountsDelivered /\ Delivered /\ \E c \in Callers : GetJobCounts(c)
    \/ \E c \in Callers : GetJobCountsReturn(c)

SpecCounts == Init /\ [][NextCounts]_vars

Quiescent == tx = NoTx /\ \A c \in Callers : pc[c] \in {"idle", "counts_ret"}

\* C16: in a quiescent store GetJobCounts returns, for each of queued,
\* running, done and failed, the number of jobs in that status, and the four
\* counts sum to the number of jobs ever enqueued.
C16_CountsMatchStatuses ==
    \A c \in Callers :
        (pc[c] = "counts_ret" /\ Quiescent) =>
            /\ ret[c].queued = Cardinality({i \in Ids(jobs) : jobs[i].status = "queued"})
            /\ ret[c].running = Cardinality({i \in Ids(jobs) : jobs[i].status = "running"})
            /\ ret[c].done = Cardinality({i \in Ids(jobs) : jobs[i].status = "done"})
            /\ ret[c].failed = Cardinality({i \in Ids(jobs) : jobs[i].status = "failed"})
            /\ ret[c].queued + ret[c].running + ret[c].done + ret[c].failed = Len(jobs)

\* GetJobCounts has returned 1 done and 1 failed from a quiescent store.
C16_Witness ==
    \E c \in Callers :
        /\ pc[c] = "counts_ret"
        /\ Quiescent
        /\ ret[c] = [queued |-> 0, running |-> 0, done |-> 1, failed |-> 1]

\* ============================ SpecCatalog: repositories and commits
\* GetOrCreateRepo and GetOrCreateCommit as upserts in two statements: an
\* INSERT that the UNIQUE key of the table turns into nothing when a row
\* with the key exists, and the SELECT of the row by its key.  The
\* statements of concurrent calls interleave.
RepoInsertNeverIgnored(rs, path) == FALSE

\* repos.root_path is UNIQUE.
RepoInsertIgnored(rs, path) == \E i \in DOMAIN rs : rs[i] = path

\* commits.sha is UNIQUE, whatever the repository.
CommitInsertIgnored(cs, sha) == \E i \in DOMAIN cs : cs[i].sha = sha

CallOf(c) == CHOOSE call \in upsert.calls : call.caller = c

GetOrCreateRepoInsert(c, path) ==
    /\ pc[c] = "idle"
    /\ repos' = IF RepoInsertIgnored(repos, path) THEN repos ELSE Append(repos, path)
    /\ upsert' = [upsert EXCEPT !.calls = @ \cup {[caller |-> c, kind |-> "repo", key |-> path]}]
    /\ pc' = [pc EXCEPT ![c] = "repo_select"]
    /\ UNCHANGED <<jobs, reviews, now, tx, claimed, ret, resets, daemon, stale, commits, ctx>>

GetOrCreateRepoSelect(c) ==
    /\ pc[c] = "repo_select"
    /\ \E id \in {i \in DOMAIN repos : repos[i] = CallOf(c).key} :
          upsert' = [calls |-> upsert.calls \ {CallOf(c)},
                     returned |-> upsert.returned \cup
                          {[kind |-> "repo", key |-> CallOf(c).key, id |-> id]}]
    /\ pc' = [pc EXCEPT ![c] = "idle"]
    /\ UNCHANGED <<jobs, reviews, now, tx, claimed, ret, resets, daemon, stale, repos, commits, ctx>>

GetOrCreateCommitInsert(c, repoID, sha) ==
    /\ pc[c] = "idle"
    /\ commits' = IF CommitInsertIgnored(commits, sha)
                  THEN commits
                  ELSE Append(commits, [repo_id |-> repoID, sha |-> sha])
    /\ upsert' = [upsert EXCEPT !.calls = @ \cup {[caller |-> c, kind |-> "commit", key |-> sha]}]
    /\ pc' = [pc EXCEPT ![c] = "commit_select"]
    /\ UNCHANGED <<jobs, reviews, now, tx, claimed, ret, resets, daemon, stale, repos, ctx>>

GetOrCreateCommitSelect(c) ==
    /\ pc[c] = "commit_select"
    /\ \E id \in {i \in DOMAIN commits : commits[i].sha = CallOf(c).key} :
          upsert' = [calls |-> upsert.calls \ {CallOf(c)},
                     returned |-> upsert.returned \cup
                          {[kind |-> "commit", key |-> CallOf(c).key, id |-> id]}]
    /\ pc' = [pc EXCEPT ![c] = "idle"]
    /\ UNCHANGED <<jobs, reviews, now, tx, claimed, ret, resets, daemon, stale, repos, commits, ctx>>

NextCatalog ==
    \/ \E c \in Callers, path \in Paths : GetOrCreateRepoInsert(c, path)
    \/ \E c \in Callers : GetOrCreateRepoSelect(c)
    \/ \E c \in Callers, repoID \in DOMAIN repos, sha \in Shas :
          GetOrCreateCommitInsert(c, repoID, sha)
    \/ \E c \in Callers : GetOrCreateCommitSelect(c)

SpecCatalog == Init /\ [][NextCatalog]_vars

\* C17: GetOrCreateRepo and GetOrCreateCommit are idempotent upserts.  Over
\* any number of sequential and concurrent calls there is one repository
\* row per root path and one commit row per SHA, every call returns the id
\* of the row with its key, and all calls with the same key return the same
\* id.
C17_UpsertsAreIdempotent ==
    /\ \A i \in DOMAIN repos, k \in DOMAIN repos : repos[i] = repos[k] => i = k
    /\ \A i \in DOMAIN commits, k \in DOMAIN commits :
          commits[i].sha = commits[k].sha => i = k
    /\ \A r \in upsert.returned, q \in upsert.returned :
          (r.kind = q.kind /\ r.key = q.key) => r.id = q.id
    /\ \A r \in upsert.returned :
          /\ r.kind = "repo" => (r.id \in DOMAIN repos /\ repos[r.id] = r.key)
          /\ r.kind = "commit" => (r.id \in DOMAIN commits /\ commits[r.id].sha = r.key)
    /\ \A call \in upsert.calls :
          /\ call.kind = "repo" => \E i \in DOMAIN repos : repos[i] = call.key
          /\ call.kind = "commit" => \E i \in DOMAIN commits : commits[i].sha = call.key

\* A path's id has been returned, and two more calls for the same path
\* stand between their INSERT and their SELECT; both paths and both SHAs
\* have their row, and a commit's id has been returned.
C17_Witness ==
    /\ \E path \in Paths :
          /\ \E r \in upsert.returned : r.kind = "repo" /\ r.key = path
          /\ \A c \in Callers :
                /\ pc[c] = "repo_select"
                /\ CallOf(c).key = path
    /\ \E r \in upsert.returned : r.kind = "commit"
    /\ Len(repos) = 2
    /\ Len(commits) = 2

\* C18: after the stop is signalled no worker claims a job: while the pool
\* is stopping no queued job becomes running and no job is enqueued; the
\* stop returns only with no job in flight (every running job recorded) or
\* by its timeout (or the process crashes), a stop that returned without
\* timeout leaves no job running, and under fair workers a stopping pool
\* gets to where no job is in flight, unless it goes down before.
C18_NoClaimAfterStop ==
    /\ [][daemon = "stopping" =>
            /\ \A id \in Ids(jobs) :
                  jobs[id].status = "queued" => jobs'[id].status = "queued"
            /\ Len(jobs') = Len(jobs)
            /\ \A w \in Workers : ~WorkerClaim(w)]_vars
    /\ [][(daemon = "stopping" /\ daemon' # "stopping") =>
            /\ daemon' = "down"
            /\ \/ (\A w \in Workers : ~InFlight(w)) /\ stale' = [ids |-> {}, cause |-> "stop"]
               \/ StopTimeout
               \/ Crash]_vars
    /\ [](stale.cause = "stop" => stale.ids = {})
    /\ [](daemon = "down" /\ stale.cause = "stop" => Running(jobs) = {})
    /\ (daemon = "stopping") ~> (daemon = "down" \/ \A w \in Workers : ~InFlight(w))

\* The stop has returned without timeout: the job that was claimed is done,
\* and a job that was queued by then is still queued, claimed by nobody.
C18_Witness ==
    /\ daemon = "down"
    /\ stale.cause = "stop"
    /\ \E id \in Ids(jobs), k \in Ids(jobs) :
          /\ jobs[id].status = "done"
          /\ jobs[k].status = "queued"
          /\ jobs[k].enqueued_at <= jobs[id].finished_at

\* ================================ SpecPool: a pool of concurrency N
\* The daemon of SpecDaemon with a pool started with concurrency
\* N = MaxWorkers, less than the number of jobs there can be.
Pool == 1..MaxWorkers

\* WorkerPool.ActiveWorkers: the workers inside "processing" (the agent runs,
\* or the outcome is being recorded).
ActiveWorkers ==
    Cardinality({w \in Pool : pc[w] \in {"processing", "complete_insert", "complete_commit"}})

NextPool ==
    \/ DaemonTick
    \/ \E portFree \in BOOLEAN : ServerStart(portFree)
    \/ HandleEnqueue
    \/ \E w \in Pool : WorkerClaim(w)
    \/ \E w \in Pool : WorkerFetch(w)
    \/ \E w \in Pool : WorkerBackoff(w)
    \/ \E w \in Pool : WorkerComplete(w)
    \/ \E w \in Pool : WorkerCompleteInsert(w)
    \/ \E w \in Pool : WorkerCompleteCommit(w)
    \/ \E w \in Pool : WorkerFail(w)
    \/ Crash
    \/ ServerStop
    \/ StopDrained
    \/ StopTimeout

SpecPool == InitDaemon /\ [][NextPool]_vars

NoPath == <<"">>                  \* the error result of a path operation

RepoRoot == <<"repo">>            \* the canonical repository root

RepoPaths == {<<"repo">>, <<"rl">>, <<"nowhere">>}

LinkTarget(isAbs, p) == [abs |-> isAbs, path |-> p]

LinkTargets ==
    { LinkTarget(TRUE, <<"repo", "a">>),
      LinkTarget(TRUE, <<"out", "secret">>),
      LinkTarget(TRUE, <<"out">>),
      LinkTarget(FALSE, <<"l1">>),
      LinkTarget(FALSE, <<"l2">>),
      LinkTarget(FALSE, <<"..", "out", "secret">>),
      LinkTarget(FALSE, <<"gone">>) }

Patterns ==
    { <<"a">>, <<"b">>, <<"l1">>, <<"l2">>, <<"l1", "secret">>, <<"gone">>,
      <<"..", "out", "secret">>, <<"..", "repo", "a">>, <<"*">> }

\* The names a directory can hold, in the order filepath.Glob returns them.
SortedNames == <<"a", "b", "l1", "l2", "out", "repo", "rl", "secret">>

FileNode(text, inode) ==
    [kind |-> "file", target |-> LinkTarget(TRUE, <<>>), content |-> text,
     ino |-> inode]

DirNode(inode) ==
    [kind |-> "dir", target |-> LinkTarget(TRUE, <<>>), content |-> "",
     ino |-> inode]

LinkNode(t, inode) ==
    [kind |-> "link", target |-> t, content |-> "", ino |-> inode]

NoNode ==
    [kind |-> "none", target |-> LinkTarget(TRUE, <<>>), content |-> "",
     ino |-> 0]

\* What is stored at the location p, p's parent being a real directory.
Node(links, p) ==
    CASE p = <<>> -> DirNode(1)
      [] p = <<"repo">> -> DirNode(2)
      [] p = <<"out">> -> DirNode(3)
      [] p = <<"repo", "a">> -> FileNode("A", 4)
      [] p = <<"repo", "b">> -> FileNode("B", 9)
      [] p = <<"out", "secret">> -> FileNode("SECRET", 5)
      [] p = <<"rl">> -> LinkNode(LinkTarget(TRUE, <<"repo">>), 6)
      [] p = <<"repo", "l1">> -> LinkNode(links.l1, 7)
      [] p = <<"repo", "l2">> -> LinkNode(links.l2, 8)
      [] OTHER -> NoNode

Front(p) == SubSeq(p, 1, Len(p) - 1)

Parent(p) == IF p = <<>> THEN <<>> ELSE Front(p)

\* filepath.Clean of an absolute path: ".." removes the component before it,
\* without looking at the file system.
RECURSIVE CleanFrom(_, _)
CleanFrom(acc, rest) ==
    IF rest = <<>> THEN acc
    ELSE IF Head(rest) = ".." THEN CleanFrom(Parent(acc), Tail(rest))
    ELSE CleanFrom(Append(acc, Head(rest)), Tail(rest))

Clean(p) == CleanFrom(<<>>, p)

Join(dir, p) == Clean(dir \o p)

\* filepath.Abs of a path that is absolute already.
Abs(p) == Clean(p)

RECURSIVE CommonPrefixLen(_, _)
CommonPrefixLen(p, q) ==
    IF p = <<>> \/ q = <<>> \/ Head(p) # Head(q) THEN 0
    ELSE 1 + CommonPrefixLen(Tail(p), Tail(q))

\* filepath.Rel: one ".." for each component of base under the common
\* prefix, then the rest of the target; <<>> stands for ".".
Rel(base, target) ==
    LET b == Clean(base)
        t == Clean(target)
        k == CommonPrefixLen(b, t)
    IN  [i \in 1..(Len(b) - k) |-> ".."] \o SubSeq(t, k + 1, Len(t))

\* filepath.EvalSymlinks walks the path a component at a time from a resolved
\* directory: ".." is the parent of the directory reached, a link is replaced
\* by its target, and the walk fails on a missing name, on a file in the
\* middle of the path and after too many links.
RECURSIVE Walk(_, _, _, _)
Walk(links, dest, rest, fuel) ==
    IF rest = <<>> THEN dest
    ELSE LET c == Head(rest)
             r == Tail(rest)
             n == Node(links, Append(dest, c))
         IN  IF c = ".." THEN Walk(links, Parent(dest), r, fuel)
             ELSE CASE n.kind = "none" -> NoPath
                    [] n.kind = "file" ->
                         IF r = <<>> THEN Append(dest, c) ELSE NoPath
                    [] n.kind = "dir" -> Walk(links, Append(dest, c), r, fuel)
                    [] n.kind = "link" ->
                         IF fuel = 0 THEN NoPath
                         ELSE Walk(links,
                                   IF n.target.abs THEN <<>> ELSE dest,
                                   n.target.path \o r, fuel - 1)

EvalSymlinks(links, p) == Walk(links, <<>>, p, MaxHops)

\* os.Lstat: the links of the directories on the way are followed, the last
\* component is not.
Lstat(links, p) ==
    IF p = <<>> THEN Node(links, p)
    ELSE LET dir == EvalSymlinks(links, Front(p))
         IN  IF dir = NoPath \/ Node(links, dir).kind # "dir" THEN NoNode
             ELSE Node(links, Append(dir, p[Len(p)]))

\* os.Stat and os.Open follow every link.
Stat(links, p) ==
    LET r == EvalSymlinks(links, p)
    IN  IF r = NoPath THEN NoNode ELSE Node(links, r)

\* filepath.Glob of dir/*: the names in the directory, sorted, each joined to
\* the directory as it was written in the pattern.
Glob(links, absPattern) ==
    LET dir == Front(absPattern)
        names == SelectSeq(SortedNames,
                           LAMBDA n : Lstat(links, Append(dir, n)).kind # "none")
    IN  IF Stat(links, dir).kind # "dir" THEN <<>>
        ELSE [i \in 1..Len(names) |-> Append(dir, names[i])]

\* isInsideRepo: the target, made relative to the root, does not climb out.
\* filepath.Rel never returns an absolute path, so that is all to test.
IsInsideRepo(repoAbs, targetPath) ==
    LET rel == Rel(repoAbs, Abs(targetPath))
    IN  ~(rel # <<>> /\ rel[1] = "..")

NoEntry == [displayPath |-> NoPath, resolvedPath |-> NoPath, validatedInfo |-> 0]

ContextEntry(display, resolved, info) ==
    [displayPath |-> display, resolvedPath |-> resolved,
     validatedInfo |-> info.ino]

\* validateContextFile without the test of the resolved path.
ValidateContextFileLexicalOnly(links, repoAbs, absPath, seen) ==
    LET resolved == EvalSymlinks(links, absPath)
        info == Stat(links, resolved)
    IN  IF ~IsInsideRepo(repoAbs, absPath) THEN NoEntry
        ELSE IF resolved = NoPath THEN NoEntry
        ELSE IF info.kind # "file" THEN NoEntry
        ELSE IF resolved \in seen THEN NoEntry
        ELSE ContextEntry(Rel(repoAbs, absPath), resolved, info)

\* validateContextFile without the test of the files seen before.
ValidateContextFileNoDedupe(links, repoAbs, absPath, seen) ==
    LET resolved == EvalSymlinks(links, absPath)
        info == Stat(links, resolved)
    IN  IF ~IsInsideRepo(repoAbs, absPath) THEN NoEntry
        ELSE IF resolved = NoPath THEN NoEntry
        ELSE IF ~IsInsideRepo(repoAbs, resolved) THEN NoEntry
        ELSE IF info.kind # "file" THEN NoEntry
        ELSE ContextEntry(Rel(repoAbs, absPath), resolved, info)

\* validateContextFile: the entry of a candidate, or NoEntry when rejected.
\* The names of this file system hold no character sanitizeDisplayPath
\* replaces, so the display path is the relative path.
ValidateContextFile(links, repoAbs, absPath, seen) ==
    LET resolved == EvalSymlinks(links, absPath)
        info == Stat(links, resolved)
    IN  IF ~IsInsideRepo(repoAbs, absPath) THEN NoEntry
        ELSE IF resolved = NoPath THEN NoEntry
        ELSE IF ~IsInsideRepo(repoAbs, resolved) THEN NoEntry
        ELSE IF info.kind # "file" THEN NoEntry
        ELSE IF resolved \in seen THEN NoEntry
        ELSE ContextEntry(Rel(repoAbs, absPath), resolved, info)

IsGlob(pattern) == \E i \in 1..Len(pattern) : pattern[i] = "*"

\* The candidates of one pattern: the matches of a glob, or the literal path
\* when Lstat finds a regular file or a symbolic link there.
Candidates(links, repoAbs, pattern) ==
    LET absPath == Join(repoAbs, pattern)
    IN  IF IsGlob(pattern) THEN Glob(links, absPath)
        ELSE IF Lstat(links, absPath).kind \in {"file", "link"} THEN <<absPath>>
        ELSE <<>>

NoEntries == [entries |-> <<>>, seen |-> {}]

RECURSIVE ValidateAll(_, _, _, _)
ValidateAll(links, repoAbs, cands, result) ==
    IF cands = <<>> THEN result
    ELSE LET entry == ValidateContextFile(links, repoAbs, Head(cands), result.seen)
         IN  ValidateAll(links, repoAbs, Tail(cands),
                 IF entry = NoEntry THEN result
                 ELSE [entries |-> Append(result.entries, entry),
                       seen |-> result.seen \cup {entry.resolvedPath}])

RECURSIVE CollectFrom(_, _, _, _)
CollectFrom(links, repoAbs, patterns, result) ==
    IF patterns = <<>> THEN result
    ELSE CollectFrom(links, repoAbs, Tail(patterns),
             ValidateAll(links, repoAbs,
                         Candidates(links, repoAbs, Head(patterns)), result))

\* The root the candidates are tested against: the canonical path of the
\* repository, or its absolute path when that cannot be resolved.
CanonicalRepo(links, repoPath) ==
    LET repoAbs == Abs(repoPath)
        canonical == EvalSymlinks(links, repoAbs)
    IN  IF canonical # NoPath THEN canonical ELSE repoAbs

CollectContextEntriesOf(links, repoPath, patterns) ==
    CollectFrom(links, CanonicalRepo(links, repoPath), patterns, NoEntries).entries

ReadError == "\\read error"

\* readContextFileWithTOCTOUCheck: the file opened is read when it is the
\* file that was validated.
ReadContextFileWithTOCTOUCheck(links, path, validatedInfo) ==
    LET openInfo == Stat(links, path)
    IN  IF openInfo.kind = "none" THEN ReadError
        ELSE IF openInfo.ino # validatedInfo THEN ReadError
        ELSE openInfo.content

NoSection == [header |-> FALSE, files |-> <<>>]

\* The loop of writeContextFiles with a budget no file exhausts: a file that
\* cannot be read is skipped, the header goes before the first file written.
RECURSIVE WriteEntries(_, _, _)
WriteEntries(links, entries, section) ==
    IF entries = <<>> THEN section
    ELSE LET entry == Head(entries)
             data == ReadContextFileWithTOCTOUCheck(links, entry.resolvedPath,
                                                    entry.validatedInfo)
         IN  WriteEntries(links, Tail(entries),
                 IF data = ReadError THEN section
                 ELSE [header |-> TRUE,
                       files |-> Append(section.files,
                                        [displayPath |-> entry.displayPath,
                                         content |-> data])])

PatternLists ==
    UNION {[1..n -> Patterns] : n \in 0..MaxPatterns}

InitContext ==
    /\ jobs = <<>>
    /\ reviews = {}
    /\ now = 1
    /\ tx = NoTx
    /\ resets = 0
    /\ repos = <<>>
    /\ commits = <<>>
    /\ upsert = NoUpserts
    /\ pc = [c \in Callers |-> "idle"]
    /\ claimed = [c \in Callers |-> NoJob]
    /\ ret = [c \in Callers |-> NoJob]
    /\ daemon = "down"
    /\ stale = NoStale
    /\ \E t1 \in LinkTargets, t2 \in LinkTargets, rp \in RepoPaths,
          ps \in PatternLists :
          ctx = [phase |-> "configured",
                 links |-> [l1 |-> t1, l2 |-> t2],
                 repoPath |-> rp,
                 patterns |-> ps,
                 entries |-> <<>>,
                 section |-> NoSection]

svars == <<jobs, reviews, now, tx, pc, claimed, ret, resets, daemon, stale,
           repos, commits, upsert>>

\* writeContextFiles up to the entries collectContextEntries returns.
CollectContextEntries ==
    /\ ctx.phase = "configured"
    /\ ctx' = [ctx EXCEPT
                 !.phase = "collected",
                 !.entries = IF ctx.patterns = <<>> THEN <<>>
                             ELSE CollectContextEntriesOf(ctx.links, ctx.repoPath,
                                                          ctx.patterns)]
    /\ UNCHANGED svars

\* writeContextFiles from the entries to the section it adds to the prompt.
WriteContextFiles ==
    /\ ctx.phase = "collected"
    /\ ctx' = [ctx EXCEPT
                 !.phase = "written",
                 !.section = WriteEntries(ctx.links, ctx.entries, NoSection)]
    /\ UNCHANGED svars

NextContext ==
    \/ CollectContextEntries
    \/ WriteContextFiles

SpecContext == InitContext /\ [][NextContext]_vars

\* The path p lies in the directory root or below it.
Under(root, p) ==
    /\ p # NoPath
    /\ Len(p) >= Len(root)
    /\ SubSeq(p, 1, Len(root)) = root

\* The regular files of the file system.
RegularFiles == {<<"out", "secret">>, <<"repo", "a">>, <<"repo", "b">>}

\* The contents of the regular files that lie outside the repository.
OutsideContents ==
    {Node(ctx.links, p).content :
        p \in {q \in RegularFiles : ~Under(RepoRoot, q)}}

\* The candidates of every configured pattern, as collectContextEntries
\* meets them.
AllCandidates ==
    LET root == CanonicalRepo(ctx.links, ctx.repoPath)
    IN  UNION {{Candidates(ctx.links, root, ctx.patterns[i])[k] :
                   k \in 1..Len(Candidates(ctx.links, root, ctx.patterns[i]))} :
               i \in 1..Len(ctx.patterns)}

\* C20: a candidate of a configured pattern (named directly, matched by a
\* glob, or reached through a chain of symbolic links) that resolves to a
\* path outside the canonical repository root is not among the collected
\* entries, the content of a file outside the root is never in the section,
\* and when every candidate was rejected no Context Files header is written.
C20_ContextFilesStayInsideRepo ==
    ctx.phase \in {"collected", "written"} =>
        /\ \A i \in 1..Len(ctx.entries) :
              /\ Under(RepoRoot, ctx.entries[i].resolvedPath)
              /\ Node(ctx.links, ctx.entries[i].resolvedPath).kind = "file"
        /\ \A cand \in AllCandidates :
              ~Under(RepoRoot, EvalSymlinks(ctx.links, cand)) =>
                  \A i \in 1..Len(ctx.entries) :
                      /\ ctx.entries[i].resolvedPath # EvalSymlinks(ctx.links, cand)
                      /\ ctx.entries[i].displayPath #
                            Rel(CanonicalRepo(ctx.links, ctx.repoPath), cand)
        /\ \A i \in 1..Len(ctx.section.files) :
              ctx.section.files[i].content \notin OutsideContents
        /\ ctx.entries = <<>> => ctx.section = NoSection
        /\ ctx.section.header = (ctx.section.files # <<>>)

\* The repository is given through the link /rl; l1 leads through l2 to
\* /out/secret.  The pattern l1 names the chain directly and the glob matches
\* a, b, l1 and l2: the section written holds the files a and b and nothing
\* else.
C20_Witness ==
    /\ ctx.phase = "written"
    /\ ctx.repoPath = <<"rl">>
    /\ ctx.links.l1 = LinkTarget(FALSE, <<"l2">>)
    /\ ctx.links.l2 = LinkTarget(TRUE, <<"out", "secret">>)
    /\ ctx.patterns = << <<"l1">>, <<"*">> >>
    /\ ctx.section = [header |-> TRUE,
                      files |-> << [displayPath |-> <<"a">>, content |-> "A"],
                                   [displayPath |-> <<"b">>, content |-> "B"] >>]

\* C24: whatever the patterns (a literal path and a glob that matches it, a
\* link that is another name of a file listed too), no two collected entries
\* have the same resolved path, no regular file is the resolved path of two
\* entries, and no file's content is in the section twice.
C24_EntriesAreDeduplicated ==
    ctx.phase \in {"collected", "written"} =>
        /\ \A i, j \in 1..Len(ctx.entries) :
              ctx.entries[i].resolvedPath = ctx.entries[j].resolvedPath => i = j
        /\ \A f \in RegularFiles :
              Cardinality({i \in 1..Len(ctx.entries) :
                              ctx.entries[i].resolvedPath = f}) <= 1
        /\ \A i, j \in 1..Len(ctx.section.files) :
              ctx.section.files[i].content = ctx.section.files[j].content => i = j
        /\ Len(ctx.section.files) <= Len(ctx.entries)

\* The file a is named directly, the glob matches it again, and l1 is another
\* name of it with l2 a link to l1: a is collected once, under its first
\* name, and b once.
C24_Witness ==
    /\ ctx.phase = "written"
    /\ ctx.links.l1 = LinkTarget(TRUE, <<"repo", "a">>)
    /\ ctx.links.l2 = LinkTarget(FALSE, <<"l1">>)
    /\ ctx.patterns = << <<"l2">>, <<"*">> >>
    /\ ctx.section = [header |-> TRUE,
                      files |-> << [displayPath |-> <<"l2">>, content |-> "A"],
                                   [displayPath |-> <<"b">>, content |-> "B"] >>]

\* ---------------------------------------------------------------------------
\* fenceForContent (internal/prompt/prompt.go): the fence of a context file.
\* A content is a sequence of characters: Backtick, or "x" for any other.
\* ---------------------------------------------------------------------------

maxFenceLength == 10

Backtick == "BACKTICK"

FenceChars == {Backtick, "x"}

Contents == UNION {[1..n -> FenceChars] : n \in 0..MaxContentLen}

\* Everything but the prompt builder is as the store starts, and stays so.
IdleStore ==
    /\ jobs = <<>>
    /\ reviews = {}
    /\ now = 1
    /\ tx = NoTx
    /\ resets = 0
    /\ repos = <<>>
    /\ commits = <<>>
    /\ upsert = NoUpserts
    /\ pc = [c \in Callers |-> "idle"]
    /\ claimed = [c \in Callers |-> NoJob]
    /\ ret = [c \in Callers |-> NoJob]
    /\ daemon = "down"
    /\ stale = NoStale

\* The loop of fenceForContent: the longest run met so far, 2 at least.
RECURSIVE MaxRunFrom(_, _, _)
MaxRunFrom(content, currentRun, maxRun) ==
    IF content = <<>> THEN maxRun
    ELSE IF Head(content) = Backtick
         THEN MaxRunFrom(Tail(content), currentRun + 1,
                         IF currentRun + 1 > maxRun THEN currentRun + 1
                         ELSE maxRun)
         ELSE MaxRunFrom(Tail(content), 0, maxRun)

Unfenceable == [fence |-> 0, ok |-> FALSE]

\* fenceForContent with no limit on the length of the fence.
FenceForContentNoLimit(content) ==
    [fence |-> MaxRunFrom(content, 0, 2) + 1, ok |-> TRUE]

\* fenceForContent: the length of the fence, or Unfenceable.
FenceForContent(content) ==
    LET fenceLen == MaxRunFrom(content, 0, 2) + 1
    IN  IF fenceLen > maxFenceLength THEN Unfenceable
        ELSE [fence |-> fenceLen, ok |-> TRUE]

InitFence ==
    /\ IdleStore
    /\ \E content \in Contents :
          ctx = [phase |-> "content", content |-> content, result |-> Unfenceable]

FenceContent ==
    /\ ctx.phase = "content"
    /\ ctx' = [ctx EXCEPT !.phase = "fenced",
                          !.result = FenceForContent(ctx.content)]
    /\ UNCHANGED svars

NextFence == FenceContent

SpecFence == InitFence /\ [][NextFence]_vars

\* The characters i..j of the content are all backticks.
IsRun(content, i, j) == \A k \in i..j : content[k] = Backtick

\* F: the length of the longest run of backticks in the content.
LongestRun(content) ==
    CHOOSE n \in 0..Len(content) :
        /\ n = 0 \/ \E i \in 1..(Len(content) - n + 1) : IsRun(content, i, i + n - 1)
        /\ \A m \in (n + 1)..Len(content) :
              ~\E i \in 1..(Len(content) - m + 1) : IsRun(content, i, i + m - 1)

\* C21: for a content whose longest run of backticks is F, fenceForContent
\* returns a fence of max(3, F + 1) backticks when that is at most 10 and
\* reports the content unfenceable otherwise; a fence returned is longer
\* than F, so no run of the content is as long as the fence.
C21_FenceLongerThanEveryRun ==
    ctx.phase = "fenced" =>
        LET F == LongestRun(ctx.content)
            want == IF F + 1 > 3 THEN F + 1 ELSE 3
        IN  /\ want <= 10 => ctx.result = [fence |-> want, ok |-> TRUE]
            /\ want > 10 => ctx.result = Unfenceable
            /\ ctx.result.ok =>
                  /\ ctx.result.fence > F
                  /\ ctx.result.fence >= 3
                  /\ \A i \in 1..Len(ctx.content) :
                        ~(/\ i + ctx.result.fence - 1 <= Len(ctx.content)
                          /\ IsRun(ctx.content, i, i + ctx.result.fence - 1))

\* Nine backticks in a row get a fence of ten.
C21_Witness ==
    /\ ctx.phase = "fenced"
    /\ LongestRun(ctx.content) = 9
    /\ ctx.result = [fence |-> 10, ok |-> TRUE]

\* ---------------------------------------------------------------------------
\* writeContextFiles (internal/prompt/prompt.go) by sizes.  A collected entry
\* is a file of `size` bytes: `run` backticks first, other characters after
\* them and, when `nl` holds, a newline as its last byte.  `fault` tells what
\* the read of the file meets: nothing, a file that cannot be opened, or a
\* file that is no longer the file validated.
\* ---------------------------------------------------------------------------

MaxPromptSize == 256000           \* 250 * 1024

ContextFilesHeaderLen == 209      \* len(ContextFilesHeader)

EstimatedOverhead == 50

TruncationNoticeLen == 37         \* len("... (context truncated due to size)\n\n")

ReadFailed == -1

ContextBudget == MaxPromptSize \div 4

PathLens == {8}

FileSizes == {19, 40000, 63732, 102400}

BacktickRuns == {0, 9, 15}

ReadFaults == {"none", "unreadable", "changed"}

SizedEntries ==
    [pathLen : PathLens, size : FileSizes, run : BacktickRuns, nl : BOOLEAN,
     fault : ReadFaults]

SizedEntryLists == UNION {[1..n -> SizedEntries] : n \in 0..MaxEntries}

Min(a, b) == IF a < b THEN a ELSE b

\* readContextFileWithTOCTOUCheck: the number of bytes read, or ReadFailed.
ReadBytes(entry, maxBytes) ==
    IF entry.fault # "none" THEN ReadFailed
    ELSE Min(entry.size, maxBytes)

\* fenceForContent of a content whose longest run of backticks is known.
FenceForRun(run) ==
    LET fenceLen == (IF run > 2 THEN run ELSE 2) + 1
    IN  IF fenceLen > maxFenceLength THEN Unfenceable
        ELSE [fence |-> fenceLen, ok |-> TRUE]

\* len(heading) + len(fileContent) + len(closing) of one file.
EntrySize(pathLen, fenceLen, contentLen) ==
    (4 + pathLen + 2 + fenceLen + 1) + contentLen + (1 + fenceLen + 2)

NoContent == [len |-> 0, wroteAny |-> FALSE, truncated |-> FALSE, files |-> <<>>]

\* The loop of writeContextFiles, were a file that fails to end the loop.
RECURSIVE WriteLoopAbortOnFailure(_, _, _, _)
WriteLoopAbortOnFailure(entries, i, budget, st) ==
    IF i > Len(entries) THEN st
    ELSE
      LET entry == entries[i]
          headerLen == ContextFilesHeaderLen + 1
          maxRead == budget - st.len - (entry.pathLen + EstimatedOverhead)
                       - (IF st.wroteAny THEN 0 ELSE headerLen)
          data == ReadBytes(entry, maxRead)
          contentLen == IF entry.nl /\ data = entry.size THEN data - 1 ELSE data
          fenced == FenceForRun(Min(entry.run, contentLen))
          totalAfterWrite ==
              st.len + EntrySize(entry.pathLen, fenced.fence, contentLen)
                + (IF st.wroteAny THEN 0 ELSE headerLen)
          written ==
              [len |-> totalAfterWrite, wroteAny |-> TRUE,
               truncated |-> st.truncated,
               files |-> Append(st.files, [entry |-> i, bytes |-> contentLen])]
      IN  IF maxRead <= 0 THEN [st EXCEPT !.truncated = TRUE]
          ELSE IF data = ReadFailed THEN st
          ELSE IF ~fenced.ok THEN st
          ELSE IF totalAfterWrite > budget THEN [st EXCEPT !.truncated = TRUE]
          ELSE IF data < entry.size THEN [written EXCEPT !.truncated = TRUE]
          ELSE WriteLoopAbortOnFailure(entries, i + 1, budget, written)

\* The loop of writeContextFiles, were a file that was read in part written
\* like a whole file and the loop continued.
RECURSIVE WriteLoopPartialGoesOn(_, _, _, _)
WriteLoopPartialGoesOn(entries, i, budget, st) ==
    IF i > Len(entries) THEN st
    ELSE
      LET entry == entries[i]
          headerLen == ContextFilesHeaderLen + 1
          maxRead == budget - st.len - (entry.pathLen + EstimatedOverhead)
                       - (IF st.wroteAny THEN 0 ELSE headerLen)
          data == ReadBytes(entry, maxRead)
          contentLen == IF entry.nl /\ data = entry.size THEN data - 1 ELSE data
          fenced == FenceForRun(Min(entry.run, contentLen))
          totalAfterWrite ==
              st.len + EntrySize(entry.pathLen, fenced.fence, contentLen)
                + (IF st.wroteAny THEN 0 ELSE headerLen)
          written ==
              [len |-> totalAfterWrite, wroteAny |-> TRUE,
               truncated |-> st.truncated,
               files |-> Append(st.files, [entry |-> i, bytes |-> contentLen])]
      IN  IF maxRead <= 0 THEN [st EXCEPT !.truncated = TRUE]
          ELSE IF data = ReadFailed THEN WriteLoopPartialGoesOn(entries, i + 1, budget, st)
          ELSE IF ~fenced.ok THEN WriteLoopPartialGoesOn(entries, i + 1, budget, st)
          ELSE IF totalAfterWrite > budget THEN [st EXCEPT !.truncated = TRUE]
          ELSE WriteLoopPartialGoesOn(entries, i + 1, budget, written)

\* The loop of writeContextFiles from the entry i on; st is what `content`
\* holds, with wroteAny and truncated.  A file that fails is passed over.
RECURSIVE WriteLoop(_, _, _, _)
WriteLoop(entries, i, budget, st) ==
    IF i > Len(entries) THEN st
    ELSE
      LET entry == entries[i]
          headerLen == ContextFilesHeaderLen + 1
          maxRead == budget - st.len - (entry.pathLen + EstimatedOverhead)
                       - (IF st.wroteAny THEN 0 ELSE headerLen)
          data == ReadBytes(entry, maxRead)
          contentLen == IF entry.nl /\ data = entry.size THEN data - 1 ELSE data
          fenced == FenceForRun(Min(entry.run, contentLen))
          totalAfterWrite ==
              st.len + EntrySize(entry.pathLen, fenced.fence, contentLen)
                + (IF st.wroteAny THEN 0 ELSE headerLen)
          written ==
              [len |-> totalAfterWrite, wroteAny |-> TRUE,
               truncated |-> st.truncated,
               files |-> Append(st.files, [entry |-> i, bytes |-> contentLen])]
      IN  IF maxRead <= 0 THEN [st EXCEPT !.truncated = TRUE]
          ELSE IF data = ReadFailed THEN WriteLoop(entries, i + 1, budget, st)
          ELSE IF ~fenced.ok THEN WriteLoop(entries, i + 1, budget, st)
          ELSE IF totalAfterWrite > budget THEN [st EXCEPT !.truncated = TRUE]
          ELSE IF data < entry.size THEN [written EXCEPT !.truncated = TRUE]
          ELSE WriteLoop(entries, i + 1, budget, written)

NoOutput == [size |-> 0, header |-> FALSE, notice |-> FALSE, files |-> <<>>]

\* What writeContextFiles adds to the prompt for the collected entries.
WriteSized(entries, budget) ==
    LET st == WriteLoop(entries, 1, budget, NoContent)
    IN  IF entries = <<>> \/ ~st.wroteAny THEN NoOutput
        ELSE [size |-> st.len + (IF st.truncated THEN TruncationNoticeLen ELSE 0),
              header |-> TRUE,
              notice |-> st.truncated,
              files |-> st.files]

InitWrite ==
    /\ IdleStore
    /\ \E entries \in SizedEntryLists :
          ctx = [phase |-> "entries", entries |-> entries,
                 budget |-> ContextBudget, out |-> NoOutput]

WriteSection ==
    /\ ctx.phase = "entries"
    /\ ctx' = [ctx EXCEPT !.phase = "section",
                          !.out = WriteSized(ctx.entries, ctx.budget)]
    /\ UNCHANGED svars

NextWrite == WriteSection

SpecWrite == InitWrite /\ [][NextWrite]_vars

\* The entry can be read whole and fenced.
ValidEntry(entry) ==
    /\ entry.fault = "none"
    /\ FenceForRun(entry.run).ok

\* The size of the entry written whole.
RenderedSize(entry) ==
    EntrySize(entry.pathLen, FenceForRun(entry.run).fence,
              IF entry.nl THEN entry.size - 1 ELSE entry.size)

RECURSIVE SumRendered(_)
SumRendered(entries) ==
    IF entries = <<>> THEN 0
    ELSE (IF ValidEntry(Head(entries)) THEN RenderedSize(Head(entries)) ELSE 0)
           + SumRendered(Tail(entries))

\* The size of the section were every valid file written whole.
CombinedRenderedSize(entries) ==
    ContextFilesHeaderLen + 1 + SumRendered(entries)

\* C22: when the valid context files, rendered whole under the header, are
\* larger than the budget, the section written (header and truncation notice
\* included) is at most the budget long and ends with the truncation notice.
C22_SectionWithinBudget ==
    (/\ ctx.phase = "section"
     /\ \E i \in 1..Len(ctx.entries) : ValidEntry(ctx.entries[i])
     /\ CombinedRenderedSize(ctx.entries) > ctx.budget)
        => /\ ctx.out.size <= ctx.budget
           /\ ctx.out.notice

\* The entries that can be read and fenced, in their order.
ValidEntries(entries) == SelectSeq(entries, ValidEntry)

\* How many of the first i entries are valid.
ValidBefore(entries, i) == Len(ValidEntries(SubSeq(entries, 1, i)))

\* The size of the section were the valid entries up to the i-th written whole.
RenderedUpTo(entries, i) == CombinedRenderedSize(SubSeq(entries, 1, i))

ProjectGuidelinesHeaderLen == 202     \* len(ProjectGuidelinesHeader)

PreviousReviewsHeaderLen == 478       \* len(PreviousReviewsHeader)

PreviousAttemptsHeaderLen == 355      \* len(PreviousAttemptsForCommitHeader)

ShaLen == 40

PromptKinds == {"single", "range", "dirty"}

\* len(SystemPromptSingle), len(SystemPromptRange), len(SystemPromptDirty)
SystemPromptLen(kind) ==
    CASE kind = "single" -> 870
      [] kind = "range" -> 875
      [] kind = "dirty" -> 789

\* review_guidelines of the repository: its length, and trimmed of spaces.
Guidelines ==
    { [raw |-> 0, trimmed |-> 0],
      [raw |-> 120, trimmed |-> 118],
      [raw |-> 254000, trimmed |-> 254000],
      [raw |-> 300000, trimmed |-> 300000] }

\* The context files collected for the repository.
ContextEntryLists ==
    { <<>>,
      << [pathLen |-> 8, size |-> 19, run |-> 0, nl |-> FALSE, fault |-> "none"] >>,
      << [pathLen |-> 8, size |-> 102400, run |-> 0, nl |-> FALSE,
          fault |-> "none"] >> }

\* The lengths of the review outputs.
OutputLen(o) == IF o = "o1" THEN 42 ELSE 69

AgentLen == 4

NoReview == ""

\* A commit that git names as a parent: the outputs of its reviews in the
\* store, the oldest first; whether the store fails on the lookup; the
\* comments on the job of its latest review, and whether their lookup fails.
ParentRecord(sha, outs, fault, comments, commentsFault) ==
    [sha |-> sha, reviews |-> outs, fault |-> fault,
     responses |-> comments, respFault |-> commentsFault]

\* What getPreviousReviewContexts meets: no context asked for, an error of
\* git, or the parents of the target, the nearest first.
HistoricalInputs ==
    { [count |-> 0, err |-> FALSE, parents |-> <<>>],
      [count |-> 2, err |-> TRUE, parents |-> <<>>],
      [count |-> 2, err |-> FALSE, parents |-> <<>>],
      [count |-> 2, err |-> FALSE,
       parents |-> << ParentRecord("p1", <<"o1">>, "none", <<>>, FALSE) >>],
      [count |-> 2, err |-> FALSE,
       parents |-> << ParentRecord("p1", <<"o1", "o2">>, "none", <<"r1", "r2">>, FALSE),
                      ParentRecord("p2", <<>>, "none", <<>>, FALSE) >>],
      [count |-> 2, err |-> FALSE,
       parents |-> << ParentRecord("p1", <<"o1">>, "db", <<"r1">>, FALSE),
                      ParentRecord("p2", <<"o2">>, "none", <<"r1">>, TRUE) >>] }

\* The reviews of the store, the oldest first: whether the job of the review
\* had the git ref of the request, and the output.
ReviewRows == [same : BOOLEAN, output : Outputs]

ReviewRowLists == UNION {[1..n -> ReviewRows] : n \in 0..MaxReviews}

GitFaults == {"none", "info", "diff"}

DiffLens == {500, 255000, 255112, 300000}

Requests ==
    { r \in [kind : PromptKinds, cfgOk : BOOLEAN, guidelines : Guidelines,
             entries : ContextEntryLists, hasDB : BOOLEAN,
             historical : HistoricalInputs, rows : ReviewRowLists,
             fault : GitFaults, diffLen : DiffLens, diffNL : BOOLEAN] :
        /\ ~r.cfgOk => r.guidelines.raw = 0 /\ r.entries = <<>>
        /\ ~r.hasDB => r.historical.count = 0 /\ r.rows = <<>>
        /\ r.kind = "dirty" => r.fault = "none" }

Part(tag, size, items, mode) ==
    [tag |-> tag, size |-> size, items |-> items, mode |-> mode]

RECURSIVE SumSizes(_)
SumSizes(parts) ==
    IF parts = <<>> THEN 0 ELSE Head(parts).size + SumSizes(Tail(parts))

\* GetSystemPrompt's text and a newline.
SystemPart(r) ==
    << Part("system", SystemPromptLen(r.kind) + 1, <<>>, "") >>

\* writeProjectGuidelines: nothing for an empty string.
WriteProjectGuidelines(guidelines) ==
    IF guidelines.raw = 0 THEN <<>>
    ELSE << Part("guidelines",
                 ProjectGuidelinesHeaderLen + 1 + guidelines.trimmed + 2,
                 <<>>, "") >>

\* writeContextFiles with a budget of a quarter of MaxPromptSize.
WriteContextPart(entries) ==
    LET out == WriteSized(entries, MaxPromptSize \div 4)
    IN  IF ~out.header THEN <<>>
        ELSE << Part("context", out.size, out.files,
                     IF out.notice THEN "truncated" ELSE "") >>

\* The two sections of the configuration, the context files first.
ConfigPartsContextFirst(r) ==
    IF ~r.cfgOk THEN <<>>
    ELSE WriteContextPart(r.entries) \o WriteProjectGuidelines(r.guidelines)

\* The guidelines and the context files, when the configuration was loaded.
ConfigParts(r) ==
    IF ~r.cfgOk THEN <<>>
    ELSE WriteProjectGuidelines(r.guidelines) \o WriteContextPart(r.entries)

Reverse(s) == [i \in 1..Len(s) |-> s[Len(s) + 1 - i]]

\* GetReviewByCommitSHA: the output of the latest review of the commit;
\* none when the commit has no review or the query fails.
GetReviewByCommitSHA(parent) ==
    IF parent.fault # "none" \/ parent.reviews = <<>> THEN NoReview
    ELSE parent.reviews[Len(parent.reviews)]

\* getPreviousReviewContexts: a context for each parent in the order of git,
\* with the review if the lookup gave one, and then the comments on its job
\* if their lookup gave them.
GetPreviousReviewContexts(parents) ==
    [i \in 1..Len(parents) |->
        LET output == GetReviewByCommitSHA(parents[i])
        IN  [sha |-> parents[i].sha,
             output |-> output,
             responses |-> IF output # NoReview /\ ~parents[i].respFault
                           THEN parents[i].responses ELSE <<>>]]

ResponderLen == 5

\* "\nComments on this review:\n" and a line "- %s: %q\n" for each response.
ResponsesSize(responses) ==
    IF responses = <<>> THEN 0
    ELSE 26 + Len(responses) * (2 + ResponderLen + 2 + 4 + 1)

\* "--- Review for commit %s ---\n", the output or "No review available.",
\* a newline, the responses and a newline.
RECURSIVE HistoricalSize(_)
HistoricalSize(contexts) ==
    IF contexts = <<>> THEN 0
    ELSE 27 + 2 + (IF Head(contexts).output = NoReview THEN 20
                   ELSE OutputLen(Head(contexts).output)) + 1
           + ResponsesSize(Head(contexts).responses) + 1
           + HistoricalSize(Tail(contexts))

\* writePreviousReviews, were the contexts written in the order of git.
HistoricalPartNearestFirst(r) ==
    IF r.hasDB /\ r.historical.count > 0 /\ ~r.historical.err
          /\ r.historical.parents # <<>>
    THEN << Part("historical",
                 PreviousReviewsHeaderLen + 1
                   + HistoricalSize(GetPreviousReviewContexts(r.historical.parents)),
                 GetPreviousReviewContexts(r.historical.parents), "") >>
    ELSE <<>>

\* writePreviousReviews, when contexts were asked for and found: the header
\* and the contexts from the last to the first.
HistoricalPart(r) ==
    IF r.hasDB /\ r.historical.count > 0 /\ ~r.historical.err
          /\ r.historical.parents # <<>>
    THEN << Part("historical",
                 PreviousReviewsHeaderLen + 1
                   + HistoricalSize(GetPreviousReviewContexts(r.historical.parents)),
                 Reverse(GetPreviousReviewContexts(r.historical.parents)), "") >>
    ELSE <<>>

\* The reviews of the jobs that had the git ref of the request, oldest first.
GetAllReviewsForGitRef(rows) == SelectSeq(rows, LAMBDA row : row.same)

\* "--- Review Attempt %d (%s, %s) ---\n", the output and two newlines.
RECURSIVE AttemptsSize(_)
AttemptsSize(revs) ==
    IF revs = <<>> THEN 0
    ELSE 45 + 1 + AgentLen + OutputLen(Head(revs).output) + 2
           + AttemptsSize(Tail(revs))

\* writePreviousAttemptsForGitRef, were the attempts numbered from 0.
WritePreviousAttemptsFromZero(r) ==
    LET revs == GetAllReviewsForGitRef(r.rows)
    IN  IF ~r.hasDB \/ revs = <<>> THEN <<>>
        ELSE << Part("attempts",
                     PreviousAttemptsHeaderLen + 1 + AttemptsSize(revs),
                     [i \in 1..Len(revs) |-> [n |-> i - 1, output |-> revs[i].output]],
                     "") >>

\* writePreviousAttemptsForGitRef: the attempts numbered from 1 in the order
\* the store returns them.
WritePreviousAttemptsForGitRef(r) ==
    LET revs == GetAllReviewsForGitRef(r.rows)
    IN  IF ~r.hasDB \/ revs = <<>> THEN <<>>
        ELSE << Part("attempts",
                     PreviousAttemptsHeaderLen + 1 + AttemptsSize(revs),
                     [i \in 1..Len(revs) |-> [n |-> i, output |-> revs[i].output]],
                     "") >>

\* "## Current Commit" with commit, author and subject; "## Commit Range"
\* with a line for each of two commits; "## Uncommitted Changes".
SubjectPart(r) ==
    << Part("subject",
            CASE r.kind = "single" -> 60 + 7 + 6 + 7
              [] r.kind = "range" -> 38 + 1 + 2 * (2 + 7 + 1 + 7 + 1)
              [] r.kind = "dirty" -> 76,
            <<>>, "") >>

\* len("### Diff\n\n") or len("### Combined Diff\n\n")
DiffHeadingLen(r) == IF r.kind = "range" THEN 19 ELSE 10

\* The heading, the fence and the diff, with a newline after the diff if it
\* has none.
DiffSectionLen(r) ==
    DiffHeadingLen(r) + 8 + r.diffLen + (IF r.diffNL THEN 0 ELSE 1) + 4

\* The last part of the prompt, were a diff that does not fit cut to the room
\* left whatever the kind of the prompt.
DiffPartCutsCommits(r, sbLen) ==
    IF sbLen + DiffSectionLen(r) <= MaxPromptSize
    THEN << Part("diff", DiffSectionLen(r), <<r.diffLen>>, "whole") >>
    ELSE LET maxDiffLen == MaxPromptSize - (sbLen + 10 + 36) - 100
         IN  IF maxDiffLen > 1000
             THEN << Part("diff", 10 + 36 + 8 + maxDiffLen + 17 + 4,
                          <<maxDiffLen>>, "prefix") >>
             ELSE << Part("diff", 10 + 36, <<0>>, "note") >>

\* The last part of the prompt, were the diff of uncommitted changes sliced
\* at the room left before the note is written and with no reserve.
DiffPartSlicesToTheLimit(r, sbLen) ==
    IF sbLen + DiffSectionLen(r) <= MaxPromptSize
    THEN << Part("diff", DiffSectionLen(r), <<r.diffLen>>, "whole") >>
    ELSE CASE r.kind = "single" ->
                << Part("diff", 10 + 64 + 21 + ShaLen, <<0>>, "pointer") >>
           [] r.kind = "range" ->
                << Part("diff", 19 + 65 + 21 + ShaLen + 2 + ShaLen, <<0>>,
                        "pointer") >>
           [] r.kind = "dirty" ->
                LET maxDiffLen == MaxPromptSize - sbLen
                IN  IF maxDiffLen > 1000
                    THEN << Part("diff", 10 + 36 + 8 + maxDiffLen + 17 + 4,
                                 <<maxDiffLen>>, "prefix") >>
                    ELSE << Part("diff", 10 + 36, <<0>>, "note") >>

\* The last part of the prompt after sbLen bytes: the diff whole when it
\* fits; else for a commit or a range a pointer to the git command, and for
\* uncommitted changes a note and, if room is left, a prefix of the diff.
DiffPart(r, sbLen) ==
    IF sbLen + DiffSectionLen(r) <= MaxPromptSize
    THEN << Part("diff", DiffSectionLen(r), <<r.diffLen>>, "whole") >>
    ELSE CASE r.kind = "single" ->
                << Part("diff", 10 + 64 + 21 + ShaLen, <<0>>, "pointer") >>
           [] r.kind = "range" ->
                << Part("diff", 19 + 65 + 21 + ShaLen + 2 + ShaLen, <<0>>,
                        "pointer") >>
           [] r.kind = "dirty" ->
                LET maxDiffLen == MaxPromptSize - (sbLen + 10 + 36) - 100
                IN  IF maxDiffLen > 1000
                    THEN << Part("diff", 10 + 36 + 8 + maxDiffLen + 17 + 4,
                                 <<maxDiffLen>>, "prefix") >>
                    ELSE << Part("diff", 10 + 36, <<0>>, "note") >>

NoPrompt == <<>>

BuildResult(prompt, err) == [prompt |-> prompt, err |-> err]

\* Everything before the subject matter.
Preamble(r) ==
    SystemPart(r) \o ConfigParts(r) \o HistoricalPart(r)
      \o (IF r.kind = "dirty" THEN <<>> ELSE WritePreviousAttemptsForGitRef(r))

\* Build (buildSinglePrompt, buildRangePrompt) and BuildDirty.
Build(r) ==
    LET sb == Preamble(r) \o SubjectPart(r)
    IN  IF r.fault = "info"
        THEN BuildResult(NoPrompt, IF r.kind = "single" THEN "get commit info"
                                   ELSE "get range commits")
        ELSE IF r.fault = "diff"
        THEN BuildResult(NoPrompt, IF r.kind = "single" THEN "get diff"
                                   ELSE "get range diff")
        ELSE BuildResult(sb \o DiffPart(r, SumSizes(sb)), "")

InitBuild ==
    /\ IdleStore
    /\ \E r \in Requests :
          ctx = [phase |-> "request", req |-> r, result |-> BuildResult(NoPrompt, "")]

BuildPrompt ==
    /\ ctx.phase = "request"
    /\ ctx' = [ctx EXCEPT !.phase = "built", !.result = Build(ctx.req)]
    /\ UNCHANGED svars

NextBuild == BuildPrompt

SpecBuild == InitBuild /\ [][NextBuild]_vars

\* C23: whatever the diff, the guidelines, the context files, the historical
\* reviews and the previous attempts, the prompt that Build or BuildDirty
\* returns is at most MaxPromptSize bytes long.
C23_PromptWithinMaxPromptSize ==
    ctx.phase = "built" => SumSizes(ctx.result.prompt) <= MaxPromptSize

\* The parts of the prompt with the tag.
PartsOf(prompt, tag) == SelectSeq(prompt, LAMBDA part : part.tag = tag)

\* The rows of the jobs that had the git ref of the request.
SameRef(rows) == {i \in 1..Len(rows) : rows[i].same}

\* The k-th oldest of them.
KthSameRef(rows, k) ==
    CHOOSE i \in SameRef(rows) :
        Cardinality({j \in SameRef(rows) : j <= i}) = k

SectionRank(tag) ==
    CASE tag = "system" -> 1
      [] tag = "guidelines" -> 2
      [] tag = "context" -> 3
      [] tag = "historical" -> 4
      [] tag = "attempts" -> 5
      [] tag = "subject" -> 6
      [] tag = "diff" -> 7

\* C27: in a prompt that was built the sections follow the order system
\* prompt, project guidelines, context files, historical reviews, previous
\* attempts, subject matter (commit metadata, then diff): any of the four in
\* the middle may be absent, and no section stands before one that is
\* earlier in this order.
C27_SectionsInFixedOrder ==
    (ctx.phase = "built" /\ ctx.result.err = "") =>
        LET prompt == ctx.result.prompt
        IN  /\ \A i, j \in 1..Len(prompt) :
                  i < j => SectionRank(prompt[i].tag) < SectionRank(prompt[j].tag)
            /\ prompt[1].tag = "system"
            /\ prompt[Len(prompt) - 1].tag = "subject"
            /\ prompt[Len(prompt)].tag = "diff"

\* A prompt with every section.
C27_Witness ==
    /\ ctx.phase = "built"
    /\ [i \in 1..Len(ctx.result.prompt) |-> ctx.result.prompt[i].tag] =
          <<"system", "guidelines", "context", "historical", "attempts",
            "subject", "diff">>

\* ---------------------------------------------------------------------------
\* Agent.Review (internal/agent/claude.go, internal/agent/codex.go).  A run of
\* the agent's command ends with an exit code, the text it produced (standard
\* output for claude, the output file for codex) and its standard error.
\* ---------------------------------------------------------------------------

AgentNames == {"claude-code", "codex"}

ExitCodes == {0, 1, 2}

AgentTexts == {"", "o1", "o2"}

StderrTexts == {"", "e1", "e2"}

NoReviewOutput == "No review output generated"

NoErr == [msg |-> "", stderr |-> ""]

ReviewResult(text, err) == [text |-> text, err |-> err]

\* ClaudeAgent.Review
ClaudeReview(run) ==
    IF run.exit # 0
    THEN ReviewResult("", [msg |-> "claude failed", stderr |-> run.stderr])
    ELSE ReviewResult(run.text, NoErr)

\* CodexAgent.Review
CodexReview(run) ==
    IF run.exit # 0
    THEN ReviewResult("", [msg |-> "codex failed", stderr |-> run.stderr])
    ELSE IF run.readErr
    THEN ReviewResult("", [msg |-> "read output", stderr |-> ""])
    ELSE IF run.text = "" THEN ReviewResult(NoReviewOutput, NoErr)
    ELSE ReviewResult(run.text, NoErr)

Review(run) ==
    IF run.agent = "codex" THEN CodexReview(run) ELSE ClaudeReview(run)

AgentRuns ==
    { run \in [agent : AgentNames, exit : ExitCodes, text : AgentTexts,
               stderr : StderrTexts, readErr : BOOLEAN] :
        run.agent = "claude-code" => ~run.readErr }

InitAgent ==
    /\ IdleStore
    /\ \E run \in AgentRuns :
          ctx = [phase |-> "run", run |-> run, result |-> ReviewResult("", NoErr)]

AgentReview ==
    /\ ctx.phase = "run"
    /\ ctx' = [ctx EXCEPT !.phase = "reviewed", !.result = Review(ctx.run)]
    /\ UNCHANGED svars

NextAgent == AgentReview

SpecAgent == InitAgent /\ [][NextAgent]_vars

\* C28: a Review that returns no error returns a text that is not empty (an
\* agent that produced nothing is reported by a placeholder), and a run that
\* ends with an exit code other than zero returns an error that holds the
\* standard error captured.
C28_ReviewOutputNeverEmpty ==
    ctx.phase = "reviewed" =>
        /\ ctx.result.err = NoErr => ctx.result.text # ""
        /\ (ctx.run.exit = 0 /\ ~ctx.run.readErr /\ ctx.run.text = "")
              => ctx.result.text \notin AgentTexts
        /\ ctx.run.exit # 0 =>
              /\ ctx.result.err # NoErr
              /\ ctx.result.err.stderr = ctx.run.stderr

\* C29: the job a ClaimJob call returns is the job that the call's own UPDATE
\* moved from queued to running, whatever other running jobs carry the same
\* worker id (with equal start times too) and whatever statement of the
\* store runs between the UPDATE and the read-back SELECT.
C29_ClaimReturnsItsOwnJob ==
    [][\A c \in Callers : ClaimJobFetch(c) => ret'[c] = claimed[c]]_vars

\* ============================ SpecFinish: CompleteJob and FailJob alone
\* The table holds jobs in any of the four statuses, each as the store's
\* operations leave it; callers call CompleteJob and FailJob with any id,
\* the ids of the table and one id that has no row.
FinishIds == 1..(MaxJobs + 1)

JobShapes ==
    { NewJob(1, 1),
      [NewJob(1, 1) EXCEPT !.status = "running", !.started_at = 1, !.worker_id = 1],
      [NewJob(1, 1) EXCEPT !.status = "done", !.started_at = 1, !.worker_id = 1,
                           !.finished_at = 1],
      [NewJob(1, 1) EXCEPT !.status = "failed", !.started_at = 1, !.worker_id = 1,
                           !.finished_at = 1, !.error = "agent: exit status 1"] }

FinishStores == UNION {[1..m -> JobShapes] : m \in 0..MaxJobs}

InitFinish ==
    /\ jobs \in FinishStores
    /\ reviews = {NewReview(id, "codex", "p", "o1") :
                     id \in {i \in Ids(jobs) : jobs[i].status = "done"}}
    /\ now = 1
    /\ tx = NoTx
    /\ resets = 0
    /\ repos = <<>>
    /\ commits = <<>>
    /\ upsert = NoUpserts
    /\ ctx = NoContext
    /\ pc = [c \in Callers |-> "idle"]
    /\ claimed = [c \in Callers |-> NoJob]
    /\ ret = [c \in Callers |-> NoJob]
    /\ daemon = "down"
    /\ stale = NoStale

FinishTick == TickStmt /\ UNCHANGED dvars

FinishBegin(c, id, a, p, o) ==
    pc[c] = "idle" /\ CompleteJobBeginStmt(c, id, a, p, o) /\ UNCHANGED dvars

\* The INSERT of a review whose job_id has no row: reviews.job_id REFERENCES
\* review_jobs(id), and Open does not turn foreign keys on, so the INSERT
\* succeeds unless the SQLite library was built with them enforced.
FinishInsert(c) ==
    /\ \/ CompleteJobInsertStmt(c)
       \/ /\ tx.job \notin Ids(jobs)
          /\ pc[c] = "complete_insert"
          /\ CompleteJobAbortStmt(c)
    /\ UNCHANGED dvars

FinishCommit(c) == CompleteJobCommitStmt(c) /\ UNCHANGED dvars

FinishFail(c, id, msg) ==
    pc[c] = "idle" /\ FailJobStmt(id, msg) /\ UNCHANGED <<pc, daemon, stale>>

NextFinish ==
    \/ FinishTick
    \/ \E c \in Callers, id \in FinishIds, a \in Agents, p \in Prompts, o \in Outputs :
          FinishBegin(c, id, a, p, o)
    \/ \E c \in Callers : FinishInsert(c)
    \/ \E c \in Callers : FinishCommit(c)
    \/ \E c \in Callers, id \in FinishIds, msg \in ErrorMsgs : FinishFail(c, id, msg)

SpecFinish == InitFinish /\ [][NextFinish]_vars

IsRunningJob(id) == id \in Ids(jobs) /\ jobs[id].status = "running"

StatusesAndReviewsKept ==
    /\ Len(jobs') = Len(jobs)
    /\ \A id \in Ids(jobs) : jobs'[id].status = jobs[id].status
    /\ reviews' = reviews

\* C30: a job becomes done or failed only from running; a CompleteJob or a
\* FailJob called for a job that is queued, done or failed, or for an id
\* that has no row, changes the status of no job and adds no review.
C30_FinishOnlyFromRunning ==
    [][/\ \A id \in Ids(jobs) :
             (/\ jobs'[id].status # jobs[id].status
              /\ jobs'[id].status \in {"done", "failed"})
                 => jobs[id].status = "running"
       /\ \A c \in Callers :
             (FinishCommit(c) /\ ~IsRunningJob(tx.job)) => StatusesAndReviewsKept
       /\ \A c \in Callers, id \in FinishIds, msg \in ErrorMsgs :
             (FinishFail(c, id, msg) /\ ~IsRunningJob(id)) => StatusesAndReviewsKept]_vars

\* ------------------------------------------ the columns a status goes with
\* C31: in every reachable state a queued job has no worker id and no start
\* time, a running job has a worker id and a start time, and a job has a
\* finish time iff its status is done or failed.
C31_ColumnsFollowStatus ==
    \A id \in Ids(jobs) :
        /\ jobs[id].status = "queued" =>
              /\ jobs[id].worker_id = NoWorker
              /\ jobs[id].started_at = NoTime
        /\ jobs[id].status = "running" =>
              /\ jobs[id].worker_id # NoWorker
              /\ jobs[id].started_at # NoTime
        /\ (jobs[id].finished_at # NoTime) <=> (jobs[id].status \in {"done", "failed"})

\* One job is running, claimed after the time it was enqueued; the other
\* was claimed and has finished.
C31_Witness ==
    /\ Len(jobs) = 2
    /\ \E i \in Ids(jobs), k \in Ids(jobs) :
          /\ jobs[i].status = "running"
          /\ jobs[i].started_at > jobs[i].enqueued_at
          /\ jobs[k].status \in {"done", "failed"}
          /\ jobs[k].started_at # NoTime
          /\ jobs[k].finished_at # NoTime

\* ------------------------------------- startup recovery and the live pool
\* C32: Server.Start has finished ResetStaleJobs when it starts the pool.
\* A job goes from running back to queued only while the daemon is down,
\* with every worker idle, and only if the previous run left it running;
\* while the daemon is alive no claimed job becomes queued again, a worker
\* claims only a queued job that no worker holds, ClaimJob hands it the job
\* it claimed, and no two workers ever hold the same job.
C32_ResetBeforePoolStarts ==
    /\ [][\A id \in Ids(jobs) :
            (jobs[id].status = "running" /\ jobs'[id].status = "queued") =>
                /\ daemon = "down"
                /\ id \in stale.ids
                /\ \A w \in Workers : pc[w] = "idle" /\ ~Holding(w, id)]_vars
    /\ [][daemon # "down" =>
            \A id \in Ids(jobs) :
                jobs[id].status # "queued" => jobs'[id].status # "queued"]_vars
    /\ [][\A w \in Workers :
            (WorkerClaim(w) /\ claimed'[w] # NoJob) =>
                /\ jobs[claimed'[w]].status = "queued"
                /\ \A v \in Workers : ~Holding(v, claimed'[w])]_vars
    /\ [][\A w \in Workers : WorkerFetch(w) => ret'[w] = claimed[w]]_vars
    /\ [](\A w \in Workers, v \in Workers, id \in Ids(jobs) :
            (Holding(w, id) /\ Holding(v, id)) => w = v)

\* After a crash and a new start, one worker processes the job the crash
\* left running while the other worker processes another job.
C32_Witness ==
    /\ daemon = "up"
    /\ stale.cause = "crash"
    /\ \E id \in stale.ids, k \in Ids(jobs), w \in Workers, v \in Workers :
          /\ w # v
          /\ id # k
          /\ pc[w] = "processing" /\ ret[w] = id
          /\ pc[v] = "processing" /\ ret[v] = k

\* ================= SpecRequeue: ResetStaleJobs followed by ClaimJob
\* The store's EnqueueJob, ClaimJob and ResetStaleJobs, called by any caller
\* in any order; ctx.ids notes the jobs a ResetStaleJobs has re-queued.
InitRequeue ==
    /\ IdleStore
    /\ ctx = [phase |-> "requeue", ids |-> {}]

\* ResetStaleJobs, noting the running jobs it re-queues.
ResetStaleJobsNoting(c) ==
    /\ Delivered
    /\ pc[c] = "idle"
    /\ CanWrite
    /\ jobs' = ResetStaleRows(jobs)
    /\ resets' = IF resets < 2 THEN resets + 1 ELSE 2
    /\ ctx' = [ctx EXCEPT !.ids = @ \cup Running(jobs)]
    /\ UNCHANGED <<reviews, now, tx, pc, claimed, ret, daemon, stale, repos,
                   commits, upsert>>

NextRequeue ==
    \/ Tick
    \/ \E c \in Callers : EnqueueJob(c)
    \/ \E c \in Callers : ClaimJobUpdate(c)
    \/ \E c \in Callers : ClaimJobFetch(c)
    \/ \E c \in Callers : ClaimJobReturn(c)
    \/ \E c \in Callers : ResetStaleJobsNoting(c)

SpecRequeue == InitRequeue /\ [][NextRequeue]_vars

Requeued == ctx.ids \cap Queued(jobs)

\* C33: ResetStaleJobs leaves the enqueue time of the jobs it re-queues as
\* it was; the UPDATE of a following ClaimJob claims a queued job and never
\* one enqueued later than a re-queued job that is still queued; and the
\* call returns the job it claimed when that job is the only running one.
C33_RequeuedJobKeepsItsPlace ==
    /\ [][\A c \in Callers :
            ResetStaleJobsNoting(c) =>
                \A id \in Ids(jobs) :
                    /\ jobs'[id].enqueued_at = jobs[id].enqueued_at
                    /\ jobs[id].status = "running" => jobs'[id].status = "queued"]_vars
    /\ [][\A c \in Callers :
            (ClaimJobUpdate(c) /\ Queued(jobs) # {}) =>
                /\ claimed'[c] \in Queued(jobs)
                /\ \A r \in Requeued :
                      jobs[claimed'[c]].enqueued_at <= jobs[r].enqueued_at]_vars
    /\ [][\A c \in Callers :
            (/\ ClaimJobFetch(c)
             /\ Running(jobs) = {claimed[c]}
             /\ jobs[claimed[c]].worker_id = c) => ret'[c] = claimed[c]]_vars

\* A job claimed at time 1 and re-queued at time 2 has been returned by the
\* next ClaimJob, while a job enqueued at time 2 is still queued.
C33_Witness ==
    \E c \in Callers, r \in ctx.ids, k \in Ids(jobs) :
        /\ pc[c] = "claim_ret"
        /\ ret[c] = r
        /\ jobs[r].status = "running"
        /\ jobs[r].started_at > jobs[r].enqueued_at
        /\ jobs[k].status = "queued"
        /\ jobs[k].enqueued_at > jobs[r].enqueued_at

\* ===================== SpecReview: reading back the review of a job
\* The store's EnqueueJob, EnqueueRangeJob, ClaimJob and CompleteJob as in
\* Spec, and GetReviewByJobID, whose result the caller leaves in ctx.
NoRows == [err |-> "sql: no rows in result set", agent |-> "", prompt |-> "",
           output |-> ""]

\* SELECT ... FROM reviews rv JOIN review_jobs j ON j.id = rv.job_id
\* JOIN repos rp ON rp.id = j.repo_id JOIN commits c ON c.id = j.commit_id
\* WHERE rv.job_id = ?  -- a repos row exists for every job.
ReviewJoinRows(js, rs, jobID) ==
    {r \in rs : /\ r.job_id = jobID
                /\ jobID \in Ids(js)
                /\ js[jobID].commit_id \in Commits}

\* QueryRow(...).Scan: the first row, or sql.ErrNoRows.
GetReviewByJobIDOf(js, rs, jobID) ==
    IF ReviewJoinRows(js, rs, jobID) = {}
    THEN NoRows
    ELSE LET r == CHOOSE x \in ReviewJoinRows(js, rs, jobID) : TRUE
         IN  [err |-> "", agent |-> r.agent, prompt |-> r.prompt, output |-> r.output]

InitReview ==
    /\ IdleStore
    /\ ctx = [phase |-> "review", job |-> NoJob, result |-> NoRows]

GetReviewByJobID(c, jobID) ==
    /\ Delivered
    /\ pc[c] = "idle"
    /\ ctx' = [ctx EXCEPT !.job = jobID,
                          !.result = GetReviewByJobIDOf(jobs, reviews, jobID)]
    /\ UNCHANGED svars

NextReview ==
    \/ \E c \in Callers : EnqueueJob(c)
    \/ \E c \in Callers : EnqueueRangeJob(c)
    \/ \E c \in Callers : ClaimJobUpdate(c)
    \/ \E c \in Callers : ClaimJobFetch(c)
    \/ \E c \in Callers : ClaimJobReturn(c)
    \/ \E c \in Callers, id \in Ids(jobs), a \in Agents, p \in Prompts, o \in Outputs :
          CompleteJobBegin(c, id, a, p, o)
    \/ \E c \in Callers : CompleteJobInsert(c)
    \/ \E c \in Callers : CompleteJobCommit(c)
    \/ \E c \in Callers, id \in Ids(jobs) : GetReviewByJobID(c, id)

SpecReview == InitReview /\ [][NextReview]_vars

\* C34: for every done job, enqueued for a commit or as a range job with a
\* null commit, GetReviewByJobID returns without error the agent, prompt and
\* output of the review that CompleteJob stored for the job.
C34_ReviewReadBackByJobID ==
    [][\A c \in Callers, id \in Ids(jobs) :
          (GetReviewByJobID(c, id) /\ jobs[id].status = "done") =>
              /\ ctx'.result.err = ""
              /\ \E r \in ReviewsOf(reviews, id) :
                    /\ ctx'.result.agent = r.agent
                    /\ ctx'.result.prompt = r.prompt
                    /\ ctx'.result.output = r.output]_vars

\* ================ SpecSwap: files swapped between validation and read
\* writeContextFiles over a repository that another process changes while
\* the prompt is built.  A file is known by its inode; ctx.dir says which
\* inode os.Open reaches under each resolved path of the repository:
\* the file validated there, another file of the repository moved over it,
\* a file created in its place, a file outside the repository reached by a
\* link put in its place, or nothing.
SwapPaths == {"a", "b"}

NoInode == 0

InodeA == 4

InodeB == 9

InodeSecret == 5

InodeNew == 10

Inodes == {InodeA, InodeB, InodeSecret, InodeNew}

InodeContent(ino) ==
    CASE ino = InodeA -> "A"
      [] ino = InodeB -> "B"
      [] ino = InodeSecret -> "SECRET"
      [] OTHER -> "NEW"

SwapPathLists == {<<"a">>, <<"b">>, <<"a", "b">>, <<"b", "a">>}

\* validateContextFile for a resolved path inside the repository: os.Stat
\* must find a regular file there; the entry keeps the path and the FileInfo.
\* No file is opened.
RECURSIVE ValidateSwapPaths(_, _)
ValidateSwapPaths(dir, paths) ==
    IF paths = <<>> THEN <<>>
    ELSE LET p == Head(paths)
             rest == ValidateSwapPaths(dir, Tail(paths))
         IN  IF dir[p] \in {NoInode, InodeSecret} THEN rest
             ELSE <<[resolvedPath |-> p, validatedInfo |-> dir[p]]>> \o rest

\* (a comparison that takes any two files for the same file)
SameFileAlways(validatedInfo, openInfo) == TRUE

\* os.SameFile: the two FileInfo describe the same inode.
SameFile(validatedInfo, openInfo) == validatedInfo = openInfo

InitSwap ==
    /\ IdleStore
    /\ \E ps \in SwapPathLists :
          ctx = [phase |-> "configured",
                 dir |-> [p \in SwapPaths |-> IF p = "a" THEN InodeA ELSE InodeB],
                 paths |-> ps,
                 entries |-> <<>>,
                 next |-> 1,
                 open |-> {},
                 section |-> <<>>]

\* Another process replaces what is at a resolved path.
SwapFile(p, ino) ==
    /\ ctx.phase \in {"configured", "reading", "opened"}
    /\ ino # ctx.dir[p]
    /\ ctx' = [ctx EXCEPT !.dir[p] = ino]
    /\ UNCHANGED svars

\* collectContextEntries: every configured path is validated.
SwapCollect ==
    /\ ctx.phase = "configured"
    /\ ctx' = [ctx EXCEPT !.phase = "reading",
                          !.entries = ValidateSwapPaths(ctx.dir, ctx.paths)]
    /\ UNCHANGED svars

\* readContextFileWithTOCTOUCheck, os.Open of the next entry: on an error
\* the loop of writeContextFiles goes on to the next entry.
SwapOpen ==
    /\ ctx.phase = "reading"
    /\ ctx.next <= Len(ctx.entries)
    /\ LET entry == ctx.entries[ctx.next]
           ino == ctx.dir[entry.resolvedPath]
       IN  IF ino = NoInode
           THEN ctx' = [ctx EXCEPT !.next = @ + 1]
           ELSE ctx' = [ctx EXCEPT !.phase = "opened",
                                   !.open = @ \cup {[entry |-> ctx.next, ino |-> ino]}]
    /\ UNCHANGED svars

\* readContextFileWithTOCTOUCheck after the open: f.Stat, os.SameFile, the
\* read, and the deferred f.Close; writeContextFiles writes what was read or
\* skips the entry.
SwapRead ==
    /\ ctx.phase = "opened"
    /\ \E f \in ctx.open :
          /\ f.entry = ctx.next
          /\ LET entry == ctx.entries[ctx.next]
             IN  IF SameFile(entry.validatedInfo, f.ino)
                 THEN ctx' = [ctx EXCEPT
                        !.phase = "reading",
                        !.open = @ \ {f},
                        !.next = @ + 1,
                        !.section = Append(@, [path |-> entry.resolvedPath,
                                               ino |-> f.ino,
                                               content |-> InodeContent(f.ino)])]
                 ELSE ctx' = [ctx EXCEPT !.phase = "reading",
                                         !.open = @ \ {f},
                                         !.next = @ + 1]
    /\ UNCHANGED svars

\* The loop has gone through every entry.
SwapDone ==
    /\ ctx.phase = "reading"
    /\ ctx.next > Len(ctx.entries)
    /\ ctx' = [ctx EXCEPT !.phase = "written"]
    /\ UNCHANGED svars

NextSwap ==
    \/ \E p \in SwapPaths, ino \in Inodes \cup {NoInode} : SwapFile(p, ino)
    \/ SwapCollect
    \/ SwapOpen
    \/ SwapRead
    \/ SwapDone

SpecSwap == InitSwap /\ [][NextSwap]_vars

\* C35: what the section holds of an entry is the content of the very file
\* that was validated for it, never of a file put in its place nor of a file
\* outside the repository; a read whose opened file is not the validated one
\* fails and writes nothing; and at most one context file is open at a time.
C35_OnlyTheValidatedFileIsRead ==
    /\ [](/\ Cardinality(ctx.open) <= 1
          /\ \A i \in 1..Len(ctx.section) :
                /\ ctx.section[i].ino # InodeSecret
                /\ ctx.section[i].content # InodeContent(InodeSecret)
                /\ \E k \in 1..Len(ctx.entries) :
                      /\ ctx.entries[k].resolvedPath = ctx.section[i].path
                      /\ ctx.entries[k].validatedInfo = ctx.section[i].ino)
    /\ [][(/\ SwapRead
           /\ \E f \in ctx.open :
                 f.ino # ctx.entries[ctx.next].validatedInfo) =>
             ctx'.section = ctx.section]_vars

\* Both files were validated; then a link to a file outside the repository
\* was put in the place of a, and the read of a opened that file: the
\* section written holds b alone.
C35_Witness ==
    /\ ctx.phase = "written"
    /\ Len(ctx.entries) = 2
    /\ ctx.entries[1] = [resolvedPath |-> "a", validatedInfo |-> InodeA]
    /\ ctx.dir["a"] = InodeSecret
    /\ ctx.section = <<[path |-> "b", ino |-> InodeB, content |-> "B"]>>

\* The content length of the entry written whole.
WholeLen(entry) == IF entry.nl THEN entry.size - 1 ELSE entry.size

\* The bytes of the section taken by the file f of ctx.out.files.
WrittenSize(f) ==
    EntrySize(ctx.entries[f.entry].pathLen,
              FenceForRun(Min(ctx.entries[f.entry].run, f.bytes)).fence,
              f.bytes)

RECURSIVE SumWritten(_)
SumWritten(files) ==
    IF files = <<>> THEN 0 ELSE WrittenSize(Head(files)) + SumWritten(Tail(files))

\* C36: the section written is the header, the files and at most one
\* truncation notice at its end.  The files written are the first valid
\* entries in their order, all whole but possibly the last; a file written
\* in part is the last one and is followed by the notice; without the notice
\* every valid entry is in the section whole; with the notice and a whole
\* last file, the loop stopped at a later entry for which no budget was
\* left; and when no file was written there is neither header nor notice.
C36_SingleTruncationNotice ==
    ctx.phase = "section" =>
        LET files == ctx.out.files
            n == Len(files)
            valid == {i \in 1..Len(ctx.entries) : ValidEntry(ctx.entries[i])}
        IN  /\ n = 0 => ctx.out = NoOutput
            /\ ctx.out.header = (n > 0)
            /\ ctx.out.notice => n > 0
            /\ n > 0 =>
                  ctx.out.size = ContextFilesHeaderLen + 1 + SumWritten(files)
                                   + (IF ctx.out.notice THEN TruncationNoticeLen ELSE 0)
            /\ \A k \in 1..n :
                  /\ files[k].entry \in valid
                  /\ Cardinality({i \in valid : i <= files[k].entry}) = k
                  /\ k < n => files[k].bytes = WholeLen(ctx.entries[files[k].entry])
                  /\ files[k].bytes < WholeLen(ctx.entries[files[k].entry]) =>
                        (k = n /\ ctx.out.notice)
            /\ (n > 0 /\ ~ctx.out.notice) =>
                  /\ n = Cardinality(valid)
                  /\ files[n].bytes = WholeLen(ctx.entries[files[n].entry])
            /\ (/\ ctx.out.notice
                /\ files[n].bytes = WholeLen(ctx.entries[files[n].entry])) =>
                  \E j \in 1..Len(ctx.entries) :
                      /\ j > files[n].entry
                      /\ \A i \in valid : i < j => i <= files[n].entry
                      /\ ctx.budget - (ContextFilesHeaderLen + 1 + SumWritten(files))
                           - (ctx.entries[j].pathLen + EstimatedOverhead) <= 0

\* A whole file of 63732 bytes leaves no budget for the file after it: the
\* loop stops there and the section ends with the notice.
C36_Witness ==
    /\ ctx.phase = "section"
    /\ Len(ctx.entries) = 2
    /\ ctx.entries[1] = [pathLen |-> 8, size |-> 63732, run |-> 0, nl |-> FALSE,
                         fault |-> "none"]
    /\ ValidEntry(ctx.entries[2])
    /\ ctx.out = [size |-> ContextFilesHeaderLen + 1 + EntrySize(8, 3, 63732)
                             + TruncationNoticeLen,
                  header |-> TRUE, notice |-> TRUE,
                  files |-> << [entry |-> 1, bytes |-> 63732] >>]

\* ---------------------------------------------------------------------------
\* The diff at the end of the prompt (prompt.go:185-213, 278-298, 366-386).
\* ---------------------------------------------------------------------------

\* The diff part of the prompt that was built, and the bytes before it.
BuiltDiff == ctx.result.prompt[Len(ctx.result.prompt)]

BytesBeforeDiff == SumSizes(ctx.result.prompt) - BuiltDiff.size

\* C37: in a prompt for a commit or a range the diff is in whole, between
\* its fence, when the bytes before it and the fenced diff make at most
\* MaxPromptSize; otherwise a pointer that names the git command stands in
\* its place and not one byte of the diff is in the prompt.
C37_DiffWholeOrPointer ==
    (/\ ctx.phase = "built"
     /\ ctx.result.err = ""
     /\ ctx.req.kind # "dirty")
        => LET fits == BytesBeforeDiff + DiffSectionLen(ctx.req) <= MaxPromptSize
           IN  /\ BuiltDiff.tag = "diff"
               /\ BuiltDiff.mode \in {"whole", "pointer"}
               /\ fits <=> BuiltDiff.mode = "whole"
               /\ BuiltDiff.mode = "whole" =>
                     /\ BuiltDiff.items = << ctx.req.diffLen >>
                     /\ BuiltDiff.size = DiffSectionLen(ctx.req)
               /\ BuiltDiff.mode = "pointer" =>
                     /\ BuiltDiff.items = << 0 >>
                     /\ BuiltDiff.size <= 19 + 65 + 21 + 2 * ShaLen + 2

\* A diff of 255112 bytes for a commit whose prompt is 951 bytes long before
\* it: the fenced diff would pass MaxPromptSize and the pointer stands in its
\* place.
C37_Witness ==
    /\ ctx.phase = "built"
    /\ ctx.result.err = ""
    /\ ctx.req.kind = "single"
    /\ ctx.req.diffLen = 255112
    /\ BytesBeforeDiff = 951
    /\ BuiltDiff.mode = "pointer"
    /\ BuiltDiff.items = << 0 >>

HistoryAsked == ctx.req.hasDB /\ ctx.req.historical.count > 0

NoRoot == ""

NoSha == ""

Passed == 0                       \* no response written yet

\* What the handler does not get to read, because an earlier step failed,
\* is left at its first value.
EnqueueRequests ==
    { req \in [method : {"POST", "GET"}, bodyOk : BOOLEAN,
               repoPath : {"", "/a/sub"}, commitSHA : {"", "HEAD"},
               root : {NoRoot, "/a"}, sha : {NoSha} \cup Shas,
               infoOk : BOOLEAN,
               storeFault : {"none", "repo", "commit", "job"}] :
        /\ req.method # "POST" => ~req.bodyOk
        /\ ~req.bodyOk => req.repoPath = "" /\ req.commitSHA = ""
        /\ (req.repoPath = "" \/ req.commitSHA = "") => req.root = NoRoot
        /\ req.root = NoRoot => req.sha = NoSha
        /\ req.sha = NoSha => ~req.infoOk
        /\ ~req.infoOk => req.storeFault = "none" }

Response(status, error, job) == [status |-> status, error |-> error, job |-> job]

\* The checks of handleEnqueue before it reads commit info.
ValidateEnqueueNoCommitInfo(req) ==
    IF req.method # "POST" THEN Response(405, "method not allowed", NoJob)
    ELSE IF ~req.bodyOk THEN Response(400, "invalid request body", NoJob)
    ELSE IF req.repoPath = "" \/ req.commitSHA = ""
    THEN Response(400, "repo_path and commit_sha are required", NoJob)
    ELSE IF req.root = NoRoot THEN Response(400, "not a git repository", NoJob)
    ELSE IF req.sha = NoSha THEN Response(400, "invalid commit", NoJob)
    ELSE Response(Passed, "", NoJob)

\* The checks of handleEnqueue before it touches the store, in their order:
\* the response of the first that fails.
ValidateEnqueue(req) ==
    IF req.method # "POST" THEN Response(405, "method not allowed", NoJob)
    ELSE IF ~req.bodyOk THEN Response(400, "invalid request body", NoJob)
    ELSE IF req.repoPath = "" \/ req.commitSHA = ""
    THEN Response(400, "repo_path and commit_sha are required", NoJob)
    ELSE IF req.root = NoRoot THEN Response(400, "not a git repository", NoJob)
    ELSE IF req.sha = NoSha THEN Response(400, "invalid commit", NoJob)
    ELSE IF ~req.infoOk THEN Response(400, "get commit info", NoJob)
    ELSE Response(Passed, "", NoJob)

\* The tables after GetOrCreateRepo and GetOrCreateCommit.
ReposWith(path) ==
    IF RepoInsertIgnored(repos, path) THEN repos ELSE Append(repos, path)

CommitsWith(repoID, sha) ==
    IF CommitInsertIgnored(commits, sha) THEN commits
    ELSE Append(commits, [repo_id |-> repoID, sha |-> sha])

InitHandle ==
    /\ IdleStore
    /\ ctx = [phase |-> "handle", served |-> 0,
              req |-> [method |-> "GET", bodyOk |-> FALSE, repoPath |-> "",
                       commitSHA |-> "", root |-> NoRoot, sha |-> NoSha,
                       infoOk |-> FALSE, storeFault |-> "none"],
              resp |-> Response(Passed, "", NoJob)]

\* Server.handleEnqueue: the checks, then GetOrCreateRepo, GetOrCreateCommit
\* and EnqueueJob, each answered with 500 if it fails, then 201 with the job.
HandleEnqueueRequest(req) ==
    LET checked == ValidateEnqueue(req)
        repoID == CHOOSE i \in DOMAIN ReposWith(req.root) :
                      ReposWith(req.root)[i] = req.root
        commitID == CHOOSE i \in DOMAIN CommitsWith(repoID, req.sha) :
                        CommitsWith(repoID, req.sha)[i].sha = req.sha
        Answer(resp) ==
            ctx' = [ctx EXCEPT !.served = 1 - @, !.req = req, !.resp = resp]
    IN  /\ ctx.phase = "handle"
        /\ IF checked.status # Passed
           THEN /\ Answer(checked)
                /\ UNCHANGED <<jobs, repos, commits, resets>>
           ELSE /\ CanWrite
                /\ CASE req.storeFault = "repo" ->
                          /\ Answer(Response(500, "get repo", NoJob))
                          /\ UNCHANGED <<jobs, repos, commits, resets>>
                     [] req.storeFault = "commit" ->
                          /\ repos' = ReposWith(req.root)
                          /\ Answer(Response(500, "get commit", NoJob))
                          /\ UNCHANGED <<jobs, commits, resets>>
                     [] req.storeFault = "job" ->
                          /\ repos' = ReposWith(req.root)
                          /\ commits' = CommitsWith(repoID, req.sha)
                          /\ Answer(Response(500, "enqueue job", NoJob))
                          /\ UNCHANGED <<jobs, resets>>
                     [] req.storeFault = "none" ->
                          /\ Len(jobs) < MaxJobs
                          /\ repos' = ReposWith(req.root)
                          /\ commits' = CommitsWith(repoID, req.sha)
                          /\ jobs' = Append(jobs, NewJob(commitID, now))
                          /\ resets' = 0
                          /\ Answer(Response(201, "", Len(jobs) + 1))
        /\ UNCHANGED <<reviews, now, tx, pc, claimed, ret, daemon, stale, upsert>>

NextHandle ==
    \/ Tick
    \/ \E c \in Callers : ClaimJobUpdate(c)
    \/ \E c \in Callers : ClaimJobFetch(c)
    \/ \E c \in Callers : ClaimJobReturn(c)
    \/ \E req \in EnqueueRequests : HandleEnqueueRequest(req)

SpecHandle == InitHandle /\ [][NextHandle]_vars

\* The request fails one of the checks of its content: a field is empty,
\* the path is in no git repository, the ref does not resolve, or the
\* commit's info cannot be read.
InvalidRequest(req) ==
    \/ req.repoPath = ""
    \/ req.commitSHA = ""
    \/ req.root = NoRoot
    \/ req.sha = NoSha
    \/ ~req.infoOk

\* C40: a POST to enqueue with a decodable body that is invalid (an empty
\* repo path or commit, a path in no git repository, a ref that does not
\* resolve, commit info that cannot be read) is answered in the same step
\* with status 400 and an error message, and by no job; the jobs, the
\* repositories and the commits of the store are after it what they were
\* before.  No answer other than 201 adds a job.
C40_InvalidEnqueueCreatesNoJob ==
    [][ctx'.served # ctx.served =>
          /\ (/\ ctx'.req.method = "POST"
              /\ ctx'.req.bodyOk
              /\ InvalidRequest(ctx'.req))
                => /\ ctx'.resp.status = 400
                   /\ ctx'.resp.error # ""
                   /\ ctx'.resp.job = NoJob
                   /\ jobs' = jobs
                   /\ repos' = repos
                   /\ commits' = commits
          /\ ctx'.resp.status # 201 => jobs' = jobs /\ ctx'.resp.job = NoJob
          /\ ctx'.resp.status = 201 =>
                /\ ~InvalidRequest(ctx'.req)
                /\ Len(jobs') = Len(jobs) + 1]_vars

\* With one job in the store, running, a request for a ref that does not
\* resolve was answered 400 "invalid commit".
C40_Witness ==
    /\ ctx.phase = "handle"
    /\ ctx.resp = Response(400, "invalid commit", NoJob)
    /\ ctx.req.root = "/a"
    /\ Len(jobs) = 1
    /\ jobs[1].status = "running"
    /\ Len(commits) = 1

====
